---- MODULE Spec2Model ----
(***************************************************************************)
(* Verification model of the Argus agent engine (MeryylleA/argus-beta).    *)
(*                                                                         *)
(* The specifications of this module:                                      *)
(*   SandboxSpec  - the two filesystem sandboxes (core/tools Sandbox and   *)
(*                  the internal/agent Sandbox) over a hostile file tree;  *)
(*   ExecutorSpec - ToolExecutor.Execute with its timeout supervisor and   *)
(*                  the ToolLogger audit trail;                            *)
(*   RunnerSpec   - the CLI agent loop Runner.run with its provider        *)
(*                  stream, budget tracker, store and event channel;       *)
(*   FindingSpec  - record_finding handled by the two runners of a         *)
(*                  collaborative session over one store;                  *)
(*   BudgetSpec   - BudgetTracker called from concurrent goroutines;       *)
(*   AdapterSpec  - the provider adapters reading a vendor stream;         *)
(*   BrokerSpec   - the SSEBroker with its publishers and stream handlers; *)
(*   TurnSpec     - one turn of tool calls of Runner.run, carried out by   *)
(*                  the executor;                                          *)
(*   ChannelSpec  - the inter-agent channel over the store's messages;     *)
(*   SseSpec      - the transcript of the SSE runner and its compaction;   *)
(*   LoggerSpec   - the ToolLogger and the snapshots its callers hold;     *)
(*   EventSpec    - the tool events the SSE runner publishes;              *)
(*   ViewSpec     - view_lines on a file of numbered lines;                *)
(*   MergeSpec    - RunCollaborative merging the events of two runners;    *)
(*   ShortRunSpec - the CLI agent loop under a budget of fewer turns than  *)
(*                  the provider serves;                                   *)
(*   SessionSpec  - the status of the session row and its writers.         *)
(* Each specification moves its own variables and leaves the others at     *)
(* their idle values.                                                      *)
(*                                                                         *)
(* Path names are strings modelled as sequences of one-character strings,  *)
(* so that strings.HasPrefix, filepath.Clean, filepath.Join, filepath.Dir  *)
(* and filepath.EvalSymlinks are computed on characters and components,    *)
(* as the Go code computes them.                                           *)
(***************************************************************************)
EXTENDS Integers, Sequences, FiniteSets, TLC

VARIABLES
    links,      \* sandbox: symlink slot -> target string, or NoLink
    call,       \* sandbox: the last ValidatePath call and what it returned
    now,        \* executor: wall clock, in ticks
    exec,       \* executor: per caller, the Execute call in progress
    tool,       \* executor: per launched call, its tool goroutine and params map
    entries,    \* executor: ToolLogger.entries
    returned,   \* executor: history of (caller, name, result, err) returned
    pc,         \* runner: position of Runner.run
    messages,   \* runner: the transcript
    stream,     \* runner: events the provider stream still holds
    turn,       \* runner: the locals of one turn of Runner.run
    budget,     \* runner: the BudgetTracker
    events,     \* runner: RunEvents buffered in the events channel
    closed,     \* runner: the events channel has been closed
    store,      \* runner: the session row and the findings of the store
    cancelled,  \* runner: ctx.Done() is closed
    hist,       \* runner: what the run has done so far
    finders,    \* findings: per agent, its handleRecordFinding call
    answers,    \* findings: the results the calls have returned
    mu,         \* tracker: the goroutine that holds BudgetTracker.mu
    workers,    \* tracker: per goroutine, its call on the tracker
    ledger,     \* tracker: what the completed calls add up to
    wire,       \* adapter: the vendor response stream still to be read
    adapter,    \* adapter: the locals of processStream
    emitted,    \* adapter: the Events sent on the provider stream
    broker,     \* broker: SSEBroker.channels and the channels made so far
    pubs,       \* broker: per goroutine, its SSEBroker.Publish call
    subs,       \* broker: per stream handler, its channel and what it read
    rows,       \* channel: the channel_messages table, in insertion order
    polls,      \* channel: per agent, its Channel.Poll call
    inbox,      \* channel: per agent, the messages its Poll calls returned
    sseRun,     \* SSE runner: the locals of Runner.Run of internal/agent
    toolLogger,  \* audit log: the ToolLogger's slice, the maps its entries
                \* point to, and the snapshots handed out by Entries
    sseEvent,  \* SSE runner: the event published for the last tool call
    view,  \* view_lines: the last Execute call of the tool and its result
    merge,  \* collaborative: the two event channels, the forwarders and merged
    session  \* session row: its status, the session context and the runners writing it

sbVars == <<links, call>>
exVars == <<now, exec, tool, entries, returned>>
rnVars == <<pc, messages, stream, turn, budget, events, closed, store,
            cancelled, hist>>
fdVars == <<finders, answers>>
btVars == <<mu, workers, ledger>>
adVars == <<wire, adapter, emitted>>
bkVars == <<broker, pubs, subs>>
chVars == <<rows, polls, inbox>>
extVars == <<bkVars, chVars, sseRun, toolLogger,
            sseEvent,
            view,
            merge,
            session>>
restVars == <<fdVars, btVars, adVars, extVars>>
vars == <<links, call, now, exec, tool, entries, returned, pc, messages,
          stream, turn, budget, events, closed, store, cancelled, hist,
          finders, answers, mu, workers, ledger, wire, adapter, emitted,
          broker, pubs, subs, rows, polls, inbox, sseRun,
          toolLogger,
          sseEvent,
          view,
          merge,
          session>>

\* The agents of a collaborative session.
Agents == {"agent_a", "agent_b"}

\* No agent is inside handleRecordFinding and none has returned from it.
FdIdle ==
    /\ finders = [a \in Agents |-> [at |-> "idle"]]
    /\ answers = <<>>

\* The goroutines that share one BudgetTracker.
Goroutines == {"g1", "g2"}

\* sync.Mutex unlocked.
Unlocked == "unlocked"

\* What the Record calls made so far add up to; first: the dimensions that
\* were the first to meet their limit.
NoLedger == [tokens |-> 0, costUSD |-> 0, toolCalls |-> 0, turns |-> 0,
             calls |-> 0, first |-> {}]

\* No goroutine is inside a method of the tracker.
BtIdle ==
    /\ mu = Unlocked
    /\ workers = [g \in Goroutines |-> [at |-> "idle"]]
    /\ ledger = NoLedger

\* The locals of processStream before the first vendor event: no tool call
\* being built (Anthropic), no accumulator (OpenAI-compatible).
NewAdapter ==
    [currentToolID |-> <<>>, currentToolName |-> "", jsonBuf |-> <<>>,
     toolCalls |-> <<>>, closed |-> FALSE]

\* No provider call is in progress.
AdIdle ==
    /\ wire = [vendor |-> "none", events |-> <<>>, err |-> FALSE,
               calls |-> <<>>]
    /\ adapter = NewAdapter
    /\ emitted = <<>>

\* The goroutines that call SSEBroker.Publish and the stream handlers.
Publishers == { "p1", "p2" }
Subscribers == { "r1", "r2" }

\* A goroutine outside Publish; a handler that has not subscribed.
NoPublish == [pc |-> "idle"]
NoSubscription == [ch |-> 0, got |-> <<>>, ended |-> FALSE, late |-> FALSE]

\* The broker after NewSSEBroker: no channel for the session.
BkIdle ==
    /\ broker = [channel |-> 0, chans |-> <<>>, next |-> 1, closes |-> 0,
                 scanned |-> FALSE]
    /\ pubs = [p \in Publishers |-> NoPublish]
    /\ subs = [r \in Subscribers |-> NoSubscription]

\* An empty channel_messages table and no Poll in progress.
ChIdle ==
    /\ rows = <<>>
    /\ polls = [a \in Agents |-> [pc |-> "idle"]]
    /\ inbox = [a \in Agents |-> <<>>]

\* Runner.Run of the SSE runner has not been called.
SseIdle == sseRun = [pc |-> "idle"]

\* NewToolLogger: no entry, no map, no snapshot.
NewToolLogger == [heap |-> <<>>, entries |-> <<>>, held |-> <<>>, seen |-> <<>>,
                  mapWrites |-> 0]

LgIdle == toolLogger = NewToolLogger

\* No tool call of the SSE runner has been carried out.
EvIdle == sseEvent = [type |-> "none"]

\* view_lines has not been called.
VwIdle == view = [at |-> "none"]

\* RunCollaborative has not been called.
MgIdle == merge = [at |-> "none"]

\* No session has been started.
SnIdle == session = [mode |-> "none"]

ExtIdle == BkIdle /\ ChIdle /\ SseIdle /\ LgIdle
    /\ EvIdle
    /\ VwIdle
    /\ MgIdle
    /\ SnIdle

RestIdle == FdIdle /\ BtIdle /\ AdIdle /\ ExtIdle

-----------------------------------------------------------------------------
(* Strings *)

Separator == "/"

\* strings.HasPrefix
HasPrefix(s, prefix) ==
    /\ Len(prefix) <= Len(s)
    /\ SubSeq(s, 1, Len(prefix)) = prefix

RECURSIVE SplitFrom(_, _, _)
\* The components of s between separators, scanning from index i with the
\* component cur under construction.
SplitFrom(s, i, cur) ==
    IF i > Len(s) THEN <<cur>>
    ELSE IF s[i] = Separator THEN <<cur>> \o SplitFrom(s, i + 1, <<>>)
    ELSE SplitFrom(s, i + 1, Append(cur, s[i]))

\* strings.Split(s, "/")
Split(s) == SplitFrom(s, 1, <<>>)

RECURSIVE JoinWith(_)
\* strings.Join(comps, "/")
JoinWith(comps) ==
    IF comps = <<>> THEN <<>>
    ELSE IF Len(comps) = 1 THEN comps[1]
    ELSE comps[1] \o <<Separator>> \o JoinWith(Tail(comps))

Dot == <<".">>
DotDot == <<".", ".">>

\* filepath.IsAbs on Unix
IsAbs(p) == Len(p) > 0 /\ p[1] = Separator

RECURSIVE CleanComps(_, _, _)
\* The lexical pass of filepath.Clean over the components still to read:
\* empty and "." components vanish, ".." removes the component before it,
\* is dropped at the root of a rooted path and is kept at the start of a
\* relative one.
CleanComps(rest, out, rooted) ==
    IF rest = <<>> THEN out
    ELSE LET c == Head(rest) IN
         IF c = <<>> \/ c = Dot THEN CleanComps(Tail(rest), out, rooted)
         ELSE IF c = DotDot THEN
              IF out # <<>> /\ out[Len(out)] # DotDot
                THEN CleanComps(Tail(rest), SubSeq(out, 1, Len(out) - 1), rooted)
              ELSE IF rooted THEN CleanComps(Tail(rest), out, rooted)
              ELSE CleanComps(Tail(rest), Append(out, c), rooted)
         ELSE CleanComps(Tail(rest), Append(out, c), rooted)

\* filepath.Clean
Clean(p) ==
    IF p = <<>> THEN Dot
    ELSE LET rooted == IsAbs(p)
             out == JoinWith(CleanComps(Split(p), <<>>, rooted))
         IN  IF rooted THEN <<Separator>> \o out
             ELSE IF out = <<>> THEN Dot ELSE out

\* filepath.Join of two elements: empty elements are ignored, the rest is
\* joined with the separator and cleaned.
Join(a, b) ==
    IF a = <<>> /\ b = <<>> THEN <<>>
    ELSE IF a = <<>> THEN Clean(b)
    ELSE IF b = <<>> THEN Clean(a)
    ELSE Clean(a \o <<Separator>> \o b)

RECURSIVE LastSep(_, _)
\* Index of the last separator of p at or before i, 0 if there is none.
LastSep(p, i) ==
    IF i = 0 THEN 0 ELSE IF p[i] = Separator THEN i ELSE LastSep(p, i - 1)

\* filepath.Dir: all but the last element of the path, cleaned.
Dir(p) == Clean(SubSeq(p, 1, LastSep(p, Len(p))))

-----------------------------------------------------------------------------
(* The file tree around the sandbox root *)

MaxSegs == 3
MaxLinksWalked == 3

NoLink == <<"-">>

\* The sandbox root /a, and /ab, a sibling whose name begins with the root's.
RootPath == <<"/", "a">>
SiblingPath == <<"/", "a", "b">>

\* Directories and regular files that exist in every tree.
Dirs == { <<"/">>, RootPath, RootPath \o <<"/", "d">>, SiblingPath }
Files == { RootPath \o <<"/", "f">>, SiblingPath \o <<"/", "s">> }

\* Places where the tree may hold a symlink: /a/l inside the root, /ab/k
\* outside it.
InnerSlot == RootPath \o <<"/", "l">>
OuterSlot == SiblingPath \o <<"/", "k">>

\* What a symlink inside the root may point at: the sibling and its file
\* (absolute and relative), places in the root, missing places in and out
\* of the root, itself, and the symlink outside the root.
InnerTargets ==
    { SiblingPath, SiblingPath \o <<"/", "s">>,
      <<".", ".", "/", "a", "b", "/", "s">>,
      RootPath, <<"d">>, <<"/", "n">>, <<"n">>, <<"l">>, OuterSlot }

\* What the symlink outside the root may point at.
OuterTargets == { RootPath }

\* os.Lstat of a resolved path: "dir", "file", "link" or "ENOENT".
Lstat(fs, p) ==
    IF p \in Dirs THEN "dir"
    ELSE IF p \in Files THEN "file"
    ELSE IF p \in DOMAIN fs /\ fs[p] # NoLink THEN "link"
    ELSE "ENOENT"

\* An absolute path spelled from its components.
AbsOf(comps) == <<Separator>> \o JoinWith(comps)

RECURSIVE WalkSymlinks(_, _, _, _)
\* filepath.EvalSymlinks on an absolute path: rest are the components still
\* to walk, dest the components resolved so far, walked the number of links
\* followed. Each ordinary component is appended to dest and lstat-ed; a
\* missing one fails, a non-directory with components left fails, a symlink
\* is replaced by its target (restarting at the root when the target is
\* absolute). The result is [err, path].
WalkSymlinks(fs, rest, dest, walked) ==
    IF rest = <<>> THEN [err |-> "", path |-> AbsOf(dest)]
    ELSE LET c == Head(rest) IN
         IF c = <<>> \/ c = Dot THEN WalkSymlinks(fs, Tail(rest), dest, walked)
         ELSE IF c = DotDot THEN
              WalkSymlinks(fs, Tail(rest),
                           IF dest = <<>> THEN dest
                           ELSE SubSeq(dest, 1, Len(dest) - 1), walked)
         ELSE LET next == Append(dest, c)
                  kind == Lstat(fs, AbsOf(next))
              IN  IF kind = "ENOENT" THEN [err |-> "ENOENT", path |-> <<>>]
                  ELSE IF kind = "dir" THEN
                       WalkSymlinks(fs, Tail(rest), next, walked)
                  ELSE IF kind = "file" THEN
                       IF Tail(rest) # <<>>
                         THEN [err |-> "ENOTDIR", path |-> <<>>]
                       ELSE WalkSymlinks(fs, Tail(rest), next, walked)
                  ELSE IF walked + 1 > MaxLinksWalked
                         THEN [err |-> "ELOOP", path |-> <<>>]
                       ELSE LET link == fs[AbsOf(next)] IN
                            WalkSymlinks(fs, Split(link) \o Tail(rest),
                                         IF IsAbs(link) THEN <<>> ELSE dest,
                                         walked + 1)

\* filepath.EvalSymlinks
EvalSymlinks(fs, p) == WalkSymlinks(fs, Split(p), <<>>, 0)

\* os.IsNotExist
IsNotExist(err) == err = "ENOENT"

-----------------------------------------------------------------------------
(* core/tools Sandbox *)

\* Sandbox.resolvedRoot, as NewSandbox computes it for the directory /a.
resolvedRoot == RootPath

\* A faulty variant of isWithinRoot: the prefix comparison without the separator.
isWithinRootNoSeparator(resolvedPath) ==
    \/ resolvedPath = resolvedRoot
    \/ HasPrefix(resolvedPath, resolvedRoot)

\* Sandbox.isWithinRoot
isWithinRoot(resolvedPath) ==
    \/ resolvedPath = resolvedRoot
    \/ HasPrefix(resolvedPath, resolvedRoot \o <<Separator>>)

\* The first step of ValidatePath: the cleaned absolute form of the request.
AbsPathOf(requestedPath) ==
    IF IsAbs(requestedPath) THEN Clean(requestedPath)
    ELSE Clean(Join(resolvedRoot, requestedPath))

\* A faulty variant of ValidatePath that skips the containment check of the parent
\* when the path itself cannot be resolved.
ValidatePathUncheckedParent(fs, requestedPath) ==
    LET absPath == AbsPathOf(requestedPath)
        r == EvalSymlinks(fs, absPath)
    IN  IF r.err # "" THEN
            IF EvalSymlinks(fs, Dir(absPath)).err # ""
              THEN [ok |-> FALSE, path |-> <<>>, branch |-> "parent-unresolved"]
            ELSE [ok |-> TRUE, path |-> absPath, branch |-> "missing"]
        ELSE IF ~isWithinRoot(r.path)
          THEN [ok |-> FALSE, path |-> <<>>, branch |-> "outside"]
        ELSE [ok |-> TRUE, path |-> r.path, branch |-> "resolved"]

\* A faulty variant of ValidatePath that compares the cleaned path with the root
\* without resolving symlinks.
ValidatePathNoResolve(fs, requestedPath) ==
    LET absPath == AbsPathOf(requestedPath) IN
    IF ~isWithinRoot(absPath)
      THEN [ok |-> FALSE, path |-> <<>>, branch |-> "outside"]
    ELSE [ok |-> TRUE, path |-> absPath, branch |-> "resolved"]

\* Sandbox.ValidatePath of core/tools: [ok, path, branch], where branch tells
\* which return statement was taken.
ValidatePath(fs, requestedPath) ==
    LET absPath == AbsPathOf(requestedPath)
        r == EvalSymlinks(fs, absPath)
    IN  IF r.err # "" THEN
            LET parent == EvalSymlinks(fs, Dir(absPath)) IN
            IF parent.err # ""
              THEN [ok |-> FALSE, path |-> <<>>, branch |-> "parent-unresolved"]
            ELSE IF ~isWithinRoot(parent.path)
              THEN [ok |-> FALSE, path |-> <<>>, branch |-> "parent-outside"]
            ELSE [ok |-> TRUE, path |-> absPath, branch |-> "missing"]
        ELSE IF ~isWithinRoot(r.path)
          THEN [ok |-> FALSE, path |-> <<>>, branch |-> "outside"]
        ELSE [ok |-> TRUE, path |-> r.path, branch |-> "resolved"]

-----------------------------------------------------------------------------
(* internal/agent Sandbox (the SSE variant) *)

\* Sandbox.root of internal/agent, as its NewSandbox computes it for /a.
root == RootPath

\* Sandbox.ValidatePath of internal/agent.
AgentValidatePath(fs, relPath) ==
    IF IsAbs(relPath)
      THEN [ok |-> FALSE, path |-> <<>>, branch |-> "absolute"]
    ELSE
    LET cleaned == Clean(relPath) IN
    IF cleaned = DotDot \/ HasPrefix(cleaned, DotDot \o <<Separator>>)
      THEN [ok |-> FALSE, path |-> <<>>, branch |-> "traversal"]
    ELSE
    LET joined == Join(root, cleaned)
        r == EvalSymlinks(fs, joined)
    IN  IF r.err # "" THEN
            IF IsNotExist(r.err) THEN
                LET parent == EvalSymlinks(fs, Dir(joined)) IN
                IF parent.err # ""
                  THEN [ok |-> FALSE, path |-> <<>>, branch |-> "parent-unresolved"]
                ELSE IF ~HasPrefix(parent.path, root)
                  THEN [ok |-> FALSE, path |-> <<>>, branch |-> "parent-outside"]
                ELSE [ok |-> TRUE, path |-> joined, branch |-> "missing"]
            ELSE [ok |-> FALSE, path |-> <<>>, branch |-> "unresolved"]
        ELSE IF ~HasPrefix(r.path, root)
          THEN [ok |-> FALSE, path |-> <<>>, branch |-> "outside"]
        ELSE [ok |-> TRUE, path |-> r.path, branch |-> "resolved"]

-----------------------------------------------------------------------------
(* The sandbox specification *)

NoCall == [variant |-> "none"]

\* Path segments a caller (the model behind the agent) may write.
Segs == { DotDot, <<"a">>, <<"a", "b">>, <<"f">>, <<"d">>, <<"l">>, <<"s">>,
          <<"k">>, <<"n">> }

RECURSIVE SeqsUpTo(_, _)
\* All sequences over S of length at most n.
SeqsUpTo(S, n) ==
    IF n = 0 THEN { <<>> }
    ELSE LET shorter == SeqsUpTo(S, n - 1)
         IN  shorter \cup { Append(q, x) : q \in shorter, x \in S }

\* Every request of at most MaxSegs segments, relative or absolute.
Requests ==
    LET segLists == SeqsUpTo(Segs, MaxSegs)
    IN  { JoinWith(q) : q \in segLists } \cup { AbsOf(q) : q \in segLists }

SbIdle ==
    /\ links = [slot \in {InnerSlot, OuterSlot} |-> NoLink]
    /\ call = NoCall

\* The repository's owner creates, retargets or removes a symlink.
Symlink(slot, target) ==
    /\ call = NoCall
    /\ links[slot] # target
    /\ links' = [links EXCEPT ![slot] = target]
    /\ UNCHANGED <<call, exVars, rnVars, restVars>>

\* A tool calls the core/tools Sandbox.
ToolsValidate ==
    /\ call = NoCall
    /\ \E p \in Requests :
          call' = [variant |-> "tools", req |-> p,
                   res |-> ValidatePath(links, p)]
    /\ UNCHANGED <<links, exVars, rnVars, restVars>>

\* A tool of the SSE runner calls the internal/agent Sandbox.
AgentValidate ==
    /\ call = NoCall
    /\ \E p \in Requests :
          call' = [variant |-> "agent", req |-> p,
                   res |-> AgentValidatePath(links, p)]
    /\ UNCHANGED <<links, exVars, rnVars, restVars>>

\* The caller has used the answer.
ValidateReturn ==
    /\ call # NoCall
    /\ call' = NoCall
    /\ UNCHANGED <<links, exVars, rnVars, restVars>>

-----------------------------------------------------------------------------
(* core/tools ToolExecutor and ToolLogger *)

MaxCalls == 2
MaxTime == 3
TimeoutTicks == 1

\* The goroutines that call Execute: the runners that share one executor.
Callers == { "agent_a", "agent_b" }

\* ToolExecutor.tools, by name (a subset of registerBuiltinTools).
RegisteredTools == { "view_lines" }

\* Tool names the model behind the agent may ask for.
ToolNames == RegisteredTools \cup { "nonexistent_tool" }

\* Parameter maps a call may carry.
ParamMaps == { [file |-> "main.go"] }

\* What tool.Execute of a built-in tool may return: content, or a
\* diagnostic result for a sandbox rejection, a missing or ill-typed
\* parameter or a failed helper; the Go error is nil on every return.
ToolOutcomes ==
    { [result |-> [Content |-> <<"lines">>, IsError |-> FALSE], err |-> "nil"],
      [result |-> [Content |-> <<"sandbox: rejected">>, IsError |-> TRUE],
       err |-> "nil"],
      [result |-> [Content |-> <<"missing required parameter">>,
                   IsError |-> TRUE], err |-> "nil"] }

\* fmt.Sprintf("Unknown tool: %q. Available tools: %v", toolName, ...)
UnknownToolResult(toolName) ==
    [Content |-> <<"Unknown tool", toolName, "Available tools">>,
     IsError |-> TRUE]

\* A faulty variant of TimedOutResult: the timeout reported as a success.
TimedOutResultNoError(toolName) ==
    [Content |-> <<"Tool timed out after", toolName, "e.timeout">>,
     IsError |-> FALSE]

\* fmt.Sprintf("Tool %q timed out after %s", toolName, e.timeout)
TimedOutResult(toolName) ==
    [Content |-> <<"Tool timed out after", toolName, "e.timeout">>,
     IsError |-> TRUE]

ExecIdleCall == [pc |-> "idle"]

ExIdle ==
    /\ now = 0
    /\ exec = [c \in Callers |-> ExecIdleCall]
    /\ tool = <<>>
    /\ entries = <<>>
    /\ returned = <<>>

\* A faulty variant of CtxDone: a context without the deadline.
CtxNeverDone(c) == FALSE

\* ctx.Done() of the call of c is closed: the deadline of
\* context.WithTimeout(context.Background(), e.timeout) has passed.
CtxDone(c) == now >= exec[c].start + TimeoutTicks

\* resultCh of the call of c holds the tool's result.
ResultReady(c) == tool[exec[c].id].state = "sent"

\* A case of the select of Execute is ready for caller c.
SelectReady(c) == exec[c].pc = "waiting" /\ (CtxDone(c) \/ ResultReady(c))

\* Execute, up to the select: an unregistered name returns at once, without
\* an audit entry; otherwise the start time is taken, the tool goroutine is
\* launched on the caller's params map and the caller waits in the select.
ExecuteBegin(c, toolName, params) ==
    /\ exec[c].pc = "idle"
    /\ IF toolName \notin RegisteredTools
         THEN /\ returned' = Append(returned,
                     [caller |-> c, id |-> 0, name |-> toolName,
                      result |-> UnknownToolResult(toolName), err |-> "nil",
                      at |-> now, start |-> now, toolState |-> "none"])
              /\ UNCHANGED <<exec, tool>>
         ELSE /\ exec' = [exec EXCEPT ![c] =
                     [pc |-> "waiting", id |-> Len(tool) + 1,
                      name |-> toolName, start |-> now]]
              /\ tool' = Append(tool, [state |-> "spawned", params |-> params])
              /\ UNCHANGED returned
    /\ UNCHANGED <<now, entries>>

\* Execute called by a goroutine other than a modelled runner.
ExecuteStart(c, toolName, params) ==
    /\ Len(returned) + Cardinality({d \in Callers : exec[d].pc # "idle"}) < MaxCalls
    /\ ExecuteBegin(c, toolName, params)
    /\ UNCHANGED <<sbVars, rnVars, restVars>>

\* The tool goroutine stores the context in the caller's map and enters
\* tool.Execute.
ToolBegin(id) ==
    /\ tool[id].state = "spawned"
    /\ tool' = [tool EXCEPT ![id] =
                   [state |-> "running",
                    params |-> ("__ctx" :> "ctx") @@ @.params]]
    /\ UNCHANGED <<now, exec, entries, returned, sbVars, rnVars, restVars>>

\* tool.Execute returns and the goroutine sends on resultCh, whose buffer
\* of one never blocks it, whether or not the caller still waits.
ToolFinish(id, outcome) ==
    /\ tool[id].state = "running"
    /\ tool' = [tool EXCEPT ![id] =
                   [state |-> "sent", params |-> @.params, outcome |-> outcome]]
    /\ UNCHANGED <<now, exec, entries, returned, sbVars, rnVars, restVars>>

\* The select takes the case <-ctx.Done().
ExecuteTimeout(c) ==
    /\ exec[c].pc = "waiting"
    /\ CtxDone(c)
    /\ exec' = [exec EXCEPT ![c] =
                   [pc |-> "logging", id |-> @.id, name |-> @.name,
                    start |-> @.start, result |-> TimedOutResult(@.name),
                    err |-> "nil", toolState |-> tool[@.id].state]]
    /\ UNCHANGED <<now, tool, entries, returned, sbVars, rnVars, restVars>>

\* The select takes the case <-resultCh.
ExecuteReceive(c) ==
    /\ exec[c].pc = "waiting"
    /\ ResultReady(c)
    /\ exec' = [exec EXCEPT ![c] =
                   [pc |-> "logging", id |-> @.id, name |-> @.name,
                    start |-> @.start,
                    result |-> tool[@.id].outcome.result,
                    err |-> tool[@.id].outcome.err, toolState |-> "received"]]
    /\ tool' = [tool EXCEPT ![exec[c].id] =
                   [state |-> "received", params |-> @.params]]
    /\ UNCHANGED <<now, entries, returned, sbVars, rnVars, restVars>>

\* The copy of params without the key "__ctx".
CleanParams(params) ==
    [k \in DOMAIN params \ {"__ctx"} |-> params[k]]

\* ToolLogger.Log
Log(entry) == entries' = Append(entries, entry)

\* The rest of Execute: the duration is taken, the parameters are copied
\* without the context, the entry is logged and the result returned.
ExecuteLog(c) ==
    /\ exec[c].pc = "logging"
    /\ Log([Timestamp |-> exec[c].start,
            ToolName |-> exec[c].name,
            Params |-> CleanParams(tool[exec[c].id].params),
            Result |-> exec[c].result,
            DurationMs |-> now - exec[c].start])
    /\ returned' = Append(returned,
           [caller |-> c, id |-> exec[c].id, name |-> exec[c].name,
            result |-> exec[c].result,
            err |-> exec[c].err, at |-> now, start |-> exec[c].start,
            toolState |-> exec[c].toolState])
    /\ exec' = [exec EXCEPT ![c] = ExecIdleCall]
    /\ UNCHANGED <<now, tool, sbVars, rnVars, restVars>>

\* Time passes, unless a waiting caller has a ready select case or is past
\* its select: a ready case wakes the caller before the clock moves on.
Tick ==
    /\ now < MaxTime
    /\ \A c \in Callers : ~SelectReady(c) /\ exec[c].pc # "logging"
    /\ now' = now + 1
    /\ UNCHANGED <<exec, tool, entries, returned, sbVars, rnVars, restVars>>

-----------------------------------------------------------------------------
(* Executor claims *)

\* C7 as stated: after k calls of Execute, for registered and unknown names
\* alike, the log holds exactly k entries, the i-th carrying the name, a
\* non-negative duration and the (Content, IsError) of the i-th call that
\* returned.
C7_AuditComplete ==
    /\ Len(entries) = Len(returned)
    /\ \A i \in DOMAIN returned :
          i \in DOMAIN entries =>
              /\ entries[i].ToolName = returned[i].name
              /\ entries[i].DurationMs >= 0
              /\ entries[i].Result = returned[i].result

\* C8: no caller waits in Execute past the deadline of its call, and a call
\* whose tool had not returned when the deadline fired returns at the
\* deadline, with the tool still running, an IsError result that names the
\* tool and the timeout, and a nil Go error.
C8_TimeoutReturns ==
    /\ \A c \in Callers :
          exec[c].pc = "waiting" => now <= exec[c].start + TimeoutTicks
    /\ \A i \in DOMAIN returned :
          LET r == returned[i] IN
          r.name \in RegisteredTools =>
              /\ r.at <= r.start + TimeoutTicks
              /\ r.toolState \in {"spawned", "running"} =>
                    /\ r.at = r.start + TimeoutTicks
                    /\ r.result = TimedOutResult(r.name)
                    /\ r.result.IsError
                    /\ r.err = "nil"

\* Execute has returned the timeout result while the tool of that call is
\* still running.
C8_Witness ==
    \E i \in DOMAIN returned :
        /\ returned[i].id # 0
        /\ returned[i].result = TimedOutResult(returned[i].name)
        /\ tool[returned[i].id].state = "running"

-----------------------------------------------------------------------------
(* core/agent BudgetTracker *)

TurnLimit == 2
ToolCallLimit == 2

\* Budget values a session may run under; a zero limit is no limit.
NoLimits ==
    [MaxTokens |-> 0, MaxCostUSD |-> 0, MaxToolCalls |-> 0, MaxDuration |-> 0,
     MaxTurns |-> 0]
Budgets ==
    { NoLimits,
      [NoLimits EXCEPT !.MaxTurns = TurnLimit],
      [NoLimits EXCEPT !.MaxToolCalls = ToolCallLimit] }

\* NewBudgetTracker
NewBudgetTracker(b) ==
    [budget |-> b, tokens |-> 0, costUSD |-> 0, toolCalls |-> 0, turns |-> 0,
     elapsed |-> 0]

\* BudgetTracker.Record
Record(bt, inputTokens, outputTokens, costUSD, toolCallsThisTurn) ==
    [bt EXCEPT !.tokens = @ + inputTokens + outputTokens,
               !.costUSD = @ + costUSD,
               !.toolCalls = @ + toolCallsThisTurn,
               !.turns = @ + 1]

\* A faulty variant of Exceeded: a limit is exceeded only once passed.
ExceededStrict(bt) ==
    IF bt.budget.MaxTokens > 0 /\ bt.tokens > bt.budget.MaxTokens
      THEN <<"token limit reached", bt.tokens, bt.budget.MaxTokens>>
    ELSE IF bt.budget.MaxCostUSD > 0 /\ bt.costUSD > bt.budget.MaxCostUSD
      THEN <<"cost limit reached", bt.costUSD, bt.budget.MaxCostUSD>>
    ELSE IF bt.budget.MaxToolCalls > 0 /\ bt.toolCalls > bt.budget.MaxToolCalls
      THEN <<"tool call limit reached", bt.toolCalls, bt.budget.MaxToolCalls>>
    ELSE IF bt.budget.MaxDuration > 0 /\ bt.elapsed > bt.budget.MaxDuration
      THEN <<"duration limit reached", bt.elapsed, bt.budget.MaxDuration>>
    ELSE IF bt.budget.MaxTurns > 0 /\ bt.turns > bt.budget.MaxTurns
      THEN <<"turn limit reached", bt.turns, bt.budget.MaxTurns>>
    ELSE <<>>

\* BudgetTracker.Exceeded: the reason of the first exhausted dimension in
\* the order tokens, cost, tool calls, duration, turns; <<>> when none is.
Exceeded(bt) ==
    IF bt.budget.MaxTokens > 0 /\ bt.tokens >= bt.budget.MaxTokens
      THEN <<"token limit reached", bt.tokens, bt.budget.MaxTokens>>
    ELSE IF bt.budget.MaxCostUSD > 0 /\ bt.costUSD >= bt.budget.MaxCostUSD
      THEN <<"cost limit reached", bt.costUSD, bt.budget.MaxCostUSD>>
    ELSE IF bt.budget.MaxToolCalls > 0 /\ bt.toolCalls >= bt.budget.MaxToolCalls
      THEN <<"tool call limit reached", bt.toolCalls, bt.budget.MaxToolCalls>>
    ELSE IF bt.budget.MaxDuration > 0 /\ bt.elapsed >= bt.budget.MaxDuration
      THEN <<"duration limit reached", bt.elapsed, bt.budget.MaxDuration>>
    ELSE IF bt.budget.MaxTurns > 0 /\ bt.turns >= bt.budget.MaxTurns
      THEN <<"turn limit reached", bt.turns, bt.budget.MaxTurns>>
    ELSE <<>>

\* BudgetTracker.Summary
Summary(bt) ==
    <<"Tokens", bt.tokens, "Cost", bt.costUSD, "Tool calls", bt.toolCalls,
      "Turns", bt.turns, "Duration", bt.elapsed>>

-----------------------------------------------------------------------------
(* core/agent Runner: the CLI agent loop *)

EventsCap == 2
MaxStreamEvents == 2
MaxProviderCalls == 2

AgentName == "single"

\* The usage a provider reports with done.
Usages == { [InputTokens |-> 1, OutputTokens |-> 1, CostUSD |-> 1] }
NoUsage == [InputTokens |-> 0, OutputTokens |-> 0, CostUSD |-> 0, nil |-> TRUE]

\* Special tool names handled by the runner, not the ToolExecutor.
toolRecordFinding == "record_finding"
toolReadChannel == "read_channel"

\* What a stream may carry before its terminal event: a text delta, a call
\* of an executor tool, a call of record_finding, a call of read_channel.
StreamKinds == { "text_delta", "view_lines", toolRecordFinding, toolReadChannel }

\* The tool call of the given kind that is the i-th event of the stream of
\* provider call number n.
ToolCallOf(kind, n, i) ==
    [ID |-> <<n, i>>, Name |-> kind,
     Params |-> IF kind = toolRecordFinding
                  THEN [title |-> "xss", location |-> "a.go:1",
                        description |-> "reflected"]
                  ELSE [file |-> "main.go"]]

\* The stream event of the given kind at position i.
StreamEventOf(kind, n, i) ==
    IF kind = "text_delta" THEN [Type |-> "text_delta", Text |-> <<"t">>]
    ELSE [Type |-> "tool_call", ToolCall |-> ToolCallOf(kind, n, i)]

\* Terminal events, and none at all for a stream that is closed without.
Terminals ==
    { <<>>, <<[Type |-> "error", Error |-> <<"stream failed">>]>> }
    \cup { <<[Type |-> "done", Usage |-> u]>> : u \in Usages }

\* The streams provider.Complete may hand to provider call number n: up to
\* MaxStreamEvents deltas and tool calls, then the terminal event.
Streams(n) ==
    { [i \in 1..Len(kinds) |-> StreamEventOf(kinds[i], n, i)] \o term :
        kinds \in SeqsUpTo(StreamKinds, MaxStreamEvents), term \in Terminals }

\* What executor.Execute may answer to a call of a registered tool.
ExecuteAnswers ==
    { [Content |-> <<"lines">>, IsError |-> FALSE],
      [Content |-> <<"sandbox: rejected">>, IsError |-> TRUE] }

RunEvent(type, text, toolName, isError) ==
    [AgentName |-> AgentName, Type |-> type, Text |-> text,
     ToolName |-> toolName, IsError |-> isError]

EventText == "text"
EventToolCall == "tool_call"
EventToolResult == "tool_result"
EventFindingRecorded == "finding_recorded"
EventDone == "done"
EventError == "error"
EventBudgetExceeded == "budget_exceeded"

NoResult == [Content |-> <<>>, IsError |-> FALSE]

NewTurn ==
    [assistantText |-> <<>>, toolCalls |-> <<>>, usage |-> NoUsage,
     streamError |-> FALSE, toolResults |-> <<>>, result |-> NoResult]

\* calls: provider calls made; sent, last: events sent on the channel;
\* requests: the transcript handed to each provider call; concludedAt: the
\* number of provider calls made when a turn ended with no tool call;
\* exit: the return statement the run left through.
\* log: the events sent, in order; streams: the stream handed back by each
\* provider call that did not fail; mark, budgetAtCall: the number of events
\* sent and the tracker when the last stream was handed back.
NoHist == [calls |-> 0, sent |-> 0, last |-> [Type |-> "none"],
           exit |-> "none", requests |-> <<>>, concludedAt |-> 0,
           log |-> <<>>, streams |-> <<>>, mark |-> 0,
           budgetAtCall |-> NewBudgetTracker(NoLimits)]

RnIdle ==
    /\ pc = [at |-> "idle"]
    /\ messages = <<>>
    /\ stream = <<>>
    /\ turn = NewTurn
    /\ budget = NewBudgetTracker(NoLimits)
    /\ events = <<>>
    /\ closed = FALSE
    /\ store = [status |-> "running", cost |-> 0, findings |-> <<>>]
    /\ cancelled = FALSE
    /\ hist = NoHist

\* Runner.Run on a new session: the channel is made, run starts with an
\* empty transcript and a fresh tracker.
RunnerInit ==
    /\ SbIdle /\ ExIdle /\ RestIdle
    /\ pc = [at |-> "top"]
    /\ messages = <<>>
    /\ stream = <<>>
    /\ turn = NewTurn
    /\ budget \in { NewBudgetTracker(b) : b \in Budgets }
    /\ events = <<>>
    /\ closed = FALSE
    /\ store = [status |-> "running", cost |-> 0, findings |-> <<>>]
    /\ cancelled = FALSE
    /\ hist = NoHist

\* The runner is about to send evt on the events channel and goes on at
\* then once the send is through.
EmitThen(evt, then) == [at |-> "emit", evt |-> evt, then |-> then]

\* events <- evt can proceed: the buffer of the channel has room (no
\* receiver is modelled as waiting; ObserverReceive empties the buffer).
CanSend == Len(events) < EventsCap

\* sqliteStore.UpdateSessionStatus under the session context: ExecContext
\* fails without touching the row once the context is cancelled.
UpdateSessionStatus(st, s) ==
    IF cancelled THEN st ELSE [st EXCEPT !.status = s]

\* sqliteStore.UpdateSessionCost
UpdateSessionCost(st, costUSD) ==
    IF cancelled THEN st ELSE [st EXCEPT !.cost = @ + costUSD]

\* buildAssistantMessage
buildAssistantMessage(text, toolCalls) ==
    [Role |-> "assistant",
     Content |->
        (IF text # <<>> THEN <<[Type |-> "text", Text |-> text]>> ELSE <<>>)
        \o [i \in 1..Len(toolCalls) |->
               [Type |-> "tool_call", ToolCall |-> toolCalls[i]]]]

\* Runner.emit: the blocking send of the pending event.
RunEmit ==
    /\ pc.at = "emit"
    /\ CanSend
    /\ events' = Append(events, pc.evt)
    /\ hist' = [hist EXCEPT !.sent = @ + 1, !.last = pc.evt,
                            !.log = Append(@, pc.evt)]
    /\ pc' = [at |-> pc.then]
    /\ UNCHANGED <<messages, stream, turn, budget, closed, store, cancelled,
                   sbVars, exVars, restVars>>

\* The top of the loop of Runner.run: the cancellation check, the budget
\* check, and the provider call, which fails or hands back a stream.
RunLoopTop ==
    /\ pc.at = "top"
    /\ IF cancelled THEN
            /\ pc' = EmitThen(RunEvent(EventError, <<"cancelled">>, "", FALSE),
                              "exitCancelled")
            /\ UNCHANGED <<stream, turn, hist>>
       ELSE IF Exceeded(budget) # <<>> THEN
            /\ pc' = EmitThen(RunEvent(EventBudgetExceeded, Exceeded(budget),
                                       "", FALSE), "exitBudget")
            /\ UNCHANGED <<stream, turn, hist>>
       ELSE /\ hist.calls < MaxProviderCalls
            /\ \/ /\ pc' = EmitThen(RunEvent(EventError, <<"provider error">>,
                                              "", FALSE), "exitProviderError")
                  /\ hist' = [hist EXCEPT !.calls = @ + 1,
                                          !.requests = Append(@, messages)]
                  /\ UNCHANGED <<stream, turn>>
               \/ /\ stream' \in Streams(hist.calls + 1)
                  /\ turn' = NewTurn
                  /\ hist' = [hist EXCEPT !.calls = @ + 1,
                                          !.requests = Append(@, messages),
                                          !.streams = Append(@, stream'),
                                          !.mark = hist.sent,
                                          !.budgetAtCall = budget]
                  /\ pc' = [at |-> "stream"]
    /\ UNCHANGED <<messages, budget, events, closed, store, cancelled,
                   sbVars, exVars, restVars>>

\* One iteration of "for event := range stream".
RunStreamEvent ==
    /\ pc.at = "stream"
    /\ stream # <<>>
    /\ LET event == Head(stream) IN
       /\ stream' = Tail(stream)
       /\ IF event.Type = "text_delta" THEN
              /\ turn' = [turn EXCEPT !.assistantText = @ \o event.Text]
              /\ pc' = EmitThen(RunEvent(EventText, event.Text, "", FALSE),
                                "stream")
          ELSE IF event.Type = "tool_call" THEN
              /\ turn' = [turn EXCEPT !.toolCalls = Append(@, event.ToolCall)]
              /\ pc' = EmitThen(RunEvent(EventToolCall, <<>>,
                                         event.ToolCall.Name, FALSE), "stream")
          ELSE IF event.Type = "done" THEN
              /\ turn' = [turn EXCEPT !.usage = event.Usage]
              /\ pc' = pc
          ELSE
              /\ turn' = [turn EXCEPT !.streamError = TRUE]
              /\ pc' = EmitThen(RunEvent(EventError, event.Error, "", FALSE),
                                "stream")
    /\ UNCHANGED <<messages, budget, events, closed, store, cancelled, hist,
                   sbVars, exVars, restVars>>

\* The runner returns: the deferred close(events) runs.
Return(exit, st) ==
    /\ pc' = [at |-> "returned"]
    /\ closed' = TRUE
    /\ store' = st
    /\ hist' = [hist EXCEPT !.exit = exit]

\* Step 8 of Runner.run: the turn made no tool call.
NoToolCalls(toolCalls) == Len(toolCalls) = 0

\* The stream is closed: steps 6 to 8 of Runner.run. After a stream error
\* the session fails; otherwise usage is recorded if there is any, the
\* assistant message is appended, and a turn without tool calls ends the
\* run with done.
RunStreamClosed ==
    /\ pc.at = "stream"
    /\ stream = <<>>
    /\ IF turn.streamError THEN
            /\ Return("streamError", UpdateSessionStatus(store, "failed"))
            /\ UNCHANGED <<messages, budget, turn>>
       ELSE
            LET recorded ==
                    IF "nil" \in DOMAIN turn.usage THEN budget
                    ELSE Record(budget, turn.usage.InputTokens,
                                turn.usage.OutputTokens, turn.usage.CostUSD,
                                Len(turn.toolCalls))
                costed ==
                    IF "nil" \in DOMAIN turn.usage THEN store
                    ELSE UpdateSessionCost(store, turn.usage.CostUSD)
            IN  /\ budget' = recorded
                /\ store' = costed
                /\ messages' = Append(messages,
                       buildAssistantMessage(turn.assistantText, turn.toolCalls))
                /\ IF NoToolCalls(turn.toolCalls)
                     THEN /\ pc' = EmitThen(RunEvent(EventDone,
                                                    Summary(recorded), "",
                                                    FALSE), "exitDone")
                          /\ hist' = [hist EXCEPT !.concludedAt = hist.calls]
                     ELSE /\ pc' = [at |-> "tools"]
                          /\ UNCHANGED hist
                /\ UNCHANGED <<turn, closed>>
    /\ UNCHANGED <<stream, events, cancelled, sbVars, exVars, restVars>>

\* A faulty variant of RunExit that goes back to the top of the loop.
RunExitToTop ==
    /\ pc.at \in {"exitCancelled", "exitBudget", "exitProviderError",
                  "exitDone"}
    /\ pc' = [at |-> "top"]
    /\ UNCHANGED <<closed, store, hist>>
    /\ UNCHANGED <<messages, stream, turn, budget, events, cancelled,
                   sbVars, exVars, restVars>>

\* The code after a terminal emit: the status update and the return.
RunExit ==
    /\ \/ pc.at = "exitCancelled"
          /\ Return("cancelled", UpdateSessionStatus(store, "cancelled"))
       \/ pc.at = "exitBudget"
          /\ Return("budget", UpdateSessionStatus(store, "completed"))
       \/ pc.at = "exitProviderError"
          /\ Return("providerError", UpdateSessionStatus(store, "failed"))
       \/ pc.at = "exitDone"
          /\ Return("done", UpdateSessionStatus(store, "completed"))
    /\ UNCHANGED <<messages, stream, turn, budget, events, cancelled,
                   sbVars, exVars, restVars>>

\* The tool-result block of a call.
ResultBlock(tc, result) ==
    [Type |-> "tool_result",
     ToolResult |-> [ToolCallID |-> tc.ID, Content |-> result.Content,
                     IsError |-> result.IsError]]

\* truncateResult
ResultDisplayLimit == 200
truncateResult(s) ==
    IF Len(s) <= ResultDisplayLimit THEN s
    ELSE SubSeq(s, 1, ResultDisplayLimit) \o <<"...">>

\* A faulty variant of CurrentCall: the loop never leaves the first call.
CurrentCallFirst == turn.toolCalls[1]

\* The tool call the loop over toolCalls is at.
CurrentCall == turn.toolCalls[Len(turn.toolResults) + 1]

\* toolResults = append(toolResults, ...) for the call the loop is at.
AppendResult(result) ==
    [turn EXCEPT !.toolResults = Append(@, ResultBlock(CurrentCall, result)),
                 !.result = NoResult]

\* RunnerConfig.ProjectID: the one project of the session.
ProjectID == "p1"

\* sqliteStore.FindingExists under the session context: the COUNT query
\* fails once the context is cancelled.
FindingExists(st, projectID, location, title) ==
    [err |-> cancelled,
     exists |-> \E i \in 1..Len(st.findings) :
                   /\ st.findings[i].ProjectID = projectID
                   /\ st.findings[i].Location = location
                   /\ st.findings[i].Title = title]

\* sqliteStore.CreateFinding: the INSERT fails under a cancelled context
\* and on UNIQUE(project_id, location, title).
CreateFinding(st, f) ==
    IF cancelled THEN [err |-> TRUE, st |-> st]
    ELSE IF FindingExists(st, f.ProjectID, f.Location, f.Title).exists
      THEN [err |-> TRUE, st |-> st]
    ELSE [err |-> FALSE, st |-> [st EXCEPT !.findings = Append(@, f)]]

\* The memory.Finding handleRecordFinding builds from the parameters.
FindingOf(params, agent) ==
    [ProjectID |-> ProjectID, Title |-> params.title,
     Location |-> params.location, FoundBy |-> agent]

\* The results handleRecordFinding returns.
RequiresResult ==
    [Content |-> <<"record_finding requires title, location, and description">>,
     IsError |-> TRUE]
CheckErrorResult ==
    [Content |-> <<"error checking duplicates">>, IsError |-> TRUE]
DuplicateResult ==
    [Content |-> <<"duplicate finding">>, IsError |-> FALSE]
CreateErrorResult ==
    [Content |-> <<"error recording finding">>, IsError |-> TRUE]
RecordedResult ==
    [Content |-> <<"Finding recorded">>, IsError |-> FALSE]

\* The store may fail a call for reasons of its own (database locked, disk
\* full): on the duplicate check, on the insert, or not at all.
StoreFaults == { "none", "check", "insert" }

\* title == "" || location == "" || description == ""
MissingField(params) ==
    params.title = "" \/ params.location = "" \/ params.description = ""

\* executeTool for one tool call of the loop of step 9, up to its emit if
\* it has one. record_finding goes through handleRecordFinding, read_channel
\* through handleReadChannel with no channel (single mode), any other name
\* through executor.Execute followed by the tool_result event.
RunExecuteTool ==
    /\ pc.at = "tools"
    /\ Len(turn.toolResults) < Len(turn.toolCalls)
    /\ LET tc == CurrentCall
           found == FindingExists(store, ProjectID, tc.Params.location,
                                  tc.Params.title)
           created == CreateFinding(store, FindingOf(tc.Params, AgentName)) IN
       IF tc.Name = toolRecordFinding THEN
          \E fault \in StoreFaults :
          IF MissingField(tc.Params) THEN
              /\ turn' = AppendResult(RequiresResult)
              /\ UNCHANGED <<pc, store>>
          ELSE IF found.err \/ fault = "check" THEN
              /\ turn' = AppendResult(CheckErrorResult)
              /\ UNCHANGED <<pc, store>>
          ELSE IF found.exists THEN
              /\ turn' = AppendResult(DuplicateResult)
              /\ UNCHANGED <<pc, store>>
          ELSE IF created.err \/ fault = "insert" THEN
              /\ turn' = AppendResult(CreateErrorResult)
              /\ UNCHANGED <<pc, store>>
          ELSE
              /\ store' = created.st
              /\ turn' = [turn EXCEPT !.result = RecordedResult]
              /\ pc' = EmitThen(RunEvent(EventFindingRecorded,
                                         <<tc.Params.title, tc.Params.location>>,
                                         "", FALSE), "toolReturn")
       ELSE IF tc.Name = toolReadChannel THEN
          /\ turn' = AppendResult([Content |-> <<"channel not available in single mode">>,
                                  IsError |-> TRUE])
          /\ UNCHANGED <<pc, store>>
       ELSE
          \E result \in ExecuteAnswers :
              /\ turn' = [turn EXCEPT !.result = result]
              /\ pc' = EmitThen(RunEvent(EventToolResult,
                                         truncateResult(result.Content),
                                         tc.Name, result.IsError), "toolReturn")
              /\ UNCHANGED store
    /\ UNCHANGED <<messages, stream, budget, events, closed, cancelled, hist,
                   sbVars, exVars, restVars>>

\* executeTool returns after its emit; the result block is appended.
RunToolReturn ==
    /\ pc.at = "toolReturn"
    /\ turn' = AppendResult(turn.result)
    /\ pc' = [at |-> "tools"]
    /\ UNCHANGED <<messages, stream, budget, events, closed, store, cancelled,
                   hist, sbVars, exVars, restVars>>

\* Step 10 of Runner.run: the tool results become a user message and the
\* loop goes back to its top.
RunAppendResults ==
    /\ pc.at = "tools"
    /\ Len(turn.toolResults) = Len(turn.toolCalls)
    /\ messages' = Append(messages,
                          [Role |-> "user", Content |-> turn.toolResults])
    /\ pc' = [at |-> "top"]
    /\ UNCHANGED <<stream, turn, budget, events, closed, store, cancelled,
                   hist, sbVars, exVars, restVars>>

\* The consumer of the events channel takes one event. Nothing obliges it
\* to: the channel is handed to the caller of Run.
ObserverReceive ==
    /\ events # <<>>
    /\ events' = Tail(events)
    /\ UNCHANGED <<pc, messages, stream, turn, budget, closed, store,
                   cancelled, hist, sbVars, exVars, restVars>>

\* The context of the run is cancelled (signal.NotifyContext).
Cancel ==
    /\ ~cancelled
    /\ pc.at # "returned"
    /\ cancelled' = TRUE
    /\ UNCHANGED <<pc, messages, stream, turn, budget, events, closed, store,
                   hist, sbVars, exVars, restVars>>

RunnerNext ==
    \/ RunLoopTop
    \/ RunStreamEvent
    \/ RunStreamClosed
    \/ RunEmit
    \/ RunExit
    \/ RunExecuteTool
    \/ RunToolReturn
    \/ RunAppendResults
    \/ ObserverReceive
    \/ Cancel

RunnerSpec == RunnerInit /\ [][RunnerNext]_vars

\* Runner.Run under a budget of fewer turns than the provider is ready to
\* serve.
ShortRunInit ==
    /\ SbIdle /\ ExIdle /\ RestIdle
    /\ pc = [at |-> "top"]
    /\ messages = <<>>
    /\ stream = <<>>
    /\ turn = NewTurn
    /\ budget = NewBudgetTracker([NoLimits EXCEPT
                                    !.MaxTurns = MaxProviderCalls - 1])
    /\ events = <<>>
    /\ closed = FALSE
    /\ store = [status |-> "running", cost |-> 0, findings |-> <<>>]
    /\ cancelled = FALSE
    /\ hist = NoHist

ShortRunSpec == ShortRunInit /\ [][RunnerNext]_vars

-----------------------------------------------------------------------------
(* record_finding from the two agents of a collaborative session *)

MaxRecordCalls == 3

\* Parameter objects a record_finding call may carry.
RecordParams ==
    { [title |-> "xss", location |-> "a.go:1", description |-> "reflected"],
      [title |-> "sqli", location |-> "b.go:2", description |-> "query"],
      [title |-> "", location |-> "a.go:1", description |-> "untitled"] }

\* handleRecordFinding of agent a returns result.
Answer(a, params, result) ==
    /\ answers' = Append(answers,
                         [agent |-> a, params |-> params, result |-> result])
    /\ finders' = [finders EXCEPT ![a] = [at |-> "idle"]]

\* The runner variables handleRecordFinding does not touch.
fdRest == <<pc, messages, stream, turn, budget, events, closed, cancelled,
            hist, sbVars, exVars, btVars, adVars, extVars>>

\* handleRecordFinding, up to the duplicate check: the required fields.
RecordBegin(a, params) ==
    /\ finders[a].at = "idle"
    /\ Len(answers) + Cardinality({b \in Agents : finders[b].at # "idle"})
          < MaxRecordCalls
    /\ IF MissingField(params)
         THEN Answer(a, params, RequiresResult)
         ELSE /\ finders' = [finders EXCEPT
                                ![a] = [at |-> "exists", params |-> params]]
              /\ UNCHANGED answers
    /\ UNCHANGED <<store, fdRest>>

\* r.store.FindingExists and the two returns that follow it.
RecordExists(a) ==
    /\ finders[a].at = "exists"
    /\ LET params == finders[a].params
           found == FindingExists(store, ProjectID, params.location,
                                  params.title) IN
       IF found.err THEN Answer(a, params, CheckErrorResult)
       ELSE IF found.exists THEN Answer(a, params, DuplicateResult)
       ELSE /\ finders' = [finders EXCEPT ![a].at = "create"]
            /\ UNCHANGED answers
    /\ UNCHANGED <<store, fdRest>>

\* r.store.CreateFinding and the error return that follows it.
RecordCreate(a) ==
    /\ finders[a].at = "create"
    /\ LET params == finders[a].params
           created == CreateFinding(store, FindingOf(params, a)) IN
       IF created.err
         THEN /\ Answer(a, params, CreateErrorResult)
              /\ UNCHANGED store
         ELSE /\ store' = created.st
              /\ finders' = [finders EXCEPT ![a].at = "emit"]
              /\ UNCHANGED answers
    /\ UNCHANGED fdRest

\* The finding_recorded emit and the final return.
RecordEmit(a) ==
    /\ finders[a].at = "emit"
    /\ Answer(a, finders[a].params, RecordedResult)
    /\ UNCHANGED <<store, fdRest>>

FindingInit == SbIdle /\ ExIdle /\ RnIdle /\ RestIdle

FindingNext ==
    \/ \E a \in Agents, params \in RecordParams : RecordBegin(a, params)
    \/ \E a \in Agents : RecordExists(a)
    \/ \E a \in Agents : RecordCreate(a)
    \/ \E a \in Agents : RecordEmit(a)

FindingSpec == FindingInit /\ [][FindingNext]_vars

\* The calls that have returned for the (location, title) of params.
AnswersFor(params) ==
    { i \in 1..Len(answers) :
        /\ answers[i].params.location = params.location
        /\ answers[i].params.title = params.title }

\* The stored findings with the (location, title) of params.
RowsFor(params) ==
    { i \in 1..Len(store.findings) :
        /\ store.findings[i].Location = params.location
        /\ store.findings[i].Title = params.title }

\* C13 (as stated): when two or more record_finding calls with the same
\* (projectId, location, title) have returned, one after the other or from
\* the two agents at once, exactly one finding is stored for them, one call
\* reports it recorded and every other call returns the non-error
\* duplicate result.
C13_FindingDedup ==
    \A params \in RecordParams :
        (~MissingField(params) /\ Cardinality(AnswersFor(params)) >= 2)
           => /\ Cardinality(RowsFor(params)) = 1
              /\ Cardinality({ i \in AnswersFor(params) :
                                 answers[i].result = RecordedResult }) = 1
              /\ \A i \in AnswersFor(params) :
                    answers[i].result \in {RecordedResult, DuplicateResult}

-----------------------------------------------------------------------------
(* The BudgetTracker under concurrent callers *)

TrackerLimit == 2
MaxTrackerCalls == 4
MaxElapsed == 2

\* Every Budget whose limits are zero (no limit) or TrackerLimit.
TrackerBudgets ==
    [MaxTokens : {0, TrackerLimit}, MaxCostUSD : {0, TrackerLimit},
     MaxToolCalls : {0, TrackerLimit}, MaxDuration : {0, TrackerLimit},
     MaxTurns : {0, TrackerLimit}]

\* Arguments of Record: a turn without usage, and one with a token, a unit
\* of cost and a tool call.
RecordArgs ==
    { [inputTokens |-> 0, outputTokens |-> 0, costUSD |-> 0,
       toolCallsThisTurn |-> 0],
      [inputTokens |-> 1, outputTokens |-> 0, costUSD |-> 1,
       toolCallsThisTurn |-> 1] }

\* The reading methods of the tracker.
ReadMethods == {"Exceeded", "Summary", "TotalCost"}

\* BudgetTracker.TotalCost
TotalCost(bt) == bt.costUSD

\* The counters of the tracker.
Counters(bt) ==
    [tokens |-> bt.tokens, costUSD |-> bt.costUSD,
     toolCalls |-> bt.toolCalls, turns |-> bt.turns]

\* The dimensions with a non-zero limit that the counters have met.
MetDims(bt) ==
    (IF bt.budget.MaxTokens > 0 /\ bt.tokens >= bt.budget.MaxTokens
       THEN {"token"} ELSE {})
    \cup (IF bt.budget.MaxCostUSD > 0 /\ bt.costUSD >= bt.budget.MaxCostUSD
            THEN {"cost"} ELSE {})
    \cup (IF bt.budget.MaxToolCalls > 0
               /\ bt.toolCalls >= bt.budget.MaxToolCalls
            THEN {"tool call"} ELSE {})
    \cup (IF bt.budget.MaxDuration > 0 /\ bt.elapsed >= bt.budget.MaxDuration
            THEN {"duration"} ELSE {})
    \cup (IF bt.budget.MaxTurns > 0 /\ bt.turns >= bt.budget.MaxTurns
            THEN {"turn"} ELSE {})

\* The ledger once the tracker has become bt: the dimensions that met
\* their limit first are fixed the first time any has.
FirstMet(led, bt) ==
    [led EXCEPT !.first = IF @ = {} THEN MetDims(bt) ELSE @]

\* The variables the methods of the tracker leave alone.
btRest == <<pc, messages, stream, turn, events, closed, store, cancelled,
            hist, sbVars, exVars, fdVars, adVars, extVars>>

\* A goroutine calls bt.Record(...).
CallRecord(g, args) ==
    /\ workers[g].at = "idle"
    /\ ledger.calls + Cardinality({h \in Goroutines : workers[h].at # "idle"})
          < MaxTrackerCalls
    /\ workers' = [workers EXCEPT
                     ![g] = [at |-> "lock", method |-> "Record",
                             args |-> args]]
    /\ UNCHANGED <<budget, mu, ledger, btRest>>

\* A goroutine calls bt.Exceeded(), bt.Summary() or bt.TotalCost().
CallRead(g, method) ==
    /\ workers[g].at = "idle"
    /\ ledger.calls + Cardinality({h \in Goroutines : workers[h].at # "idle"})
          < MaxTrackerCalls
    /\ workers' = [workers EXCEPT ![g] = [at |-> "lock", method |-> method]]
    /\ UNCHANGED <<budget, mu, ledger, btRest>>

\* A faulty variant of MuFree: a mutex that excludes nobody.
MuFreeAlways == TRUE

\* bt.mu can be locked.
MuFree == mu = Unlocked

\* bt.mu.Lock()
TrackerLock(g) ==
    /\ workers[g].at = "lock"
    /\ MuFree
    /\ mu' = g
    /\ workers' = [workers EXCEPT ![g].at = "locked"]
    /\ UNCHANGED <<budget, ledger, btRest>>

\* The body of Record reads the counters ...
RecordLoad(g) ==
    /\ workers[g].at = "locked"
    /\ workers[g].method = "Record"
    /\ workers' = [workers EXCEPT ![g] =
                     [at |-> "loaded", method |-> "Record",
                      args |-> workers[g].args, load |-> Counters(budget)]]
    /\ UNCHANGED <<budget, mu, ledger, btRest>>

\* ... and writes them back with the arguments added.
RecordStore(g) ==
    /\ workers[g].at = "loaded"
    /\ LET w == workers[g]
           read == [budget EXCEPT !.tokens = w.load.tokens,
                                  !.costUSD = w.load.costUSD,
                                  !.toolCalls = w.load.toolCalls,
                                  !.turns = w.load.turns]
           next == Record(read, w.args.inputTokens, w.args.outputTokens,
                          w.args.costUSD, w.args.toolCallsThisTurn)
       IN  /\ budget' = next
           /\ ledger' = FirstMet(
                  [ledger EXCEPT
                     !.tokens = @ + w.args.inputTokens + w.args.outputTokens,
                     !.costUSD = @ + w.args.costUSD,
                     !.toolCalls = @ + w.args.toolCallsThisTurn,
                     !.turns = @ + 1], next)
           /\ workers' = [workers EXCEPT
                            ![g] = [at |-> "unlock", method |-> "Record"]]
    /\ UNCHANGED <<mu, btRest>>

\* The body of Exceeded, Summary or TotalCost.
TrackerRead(g) ==
    /\ workers[g].at = "locked"
    /\ workers[g].method \in ReadMethods
    /\ LET m == workers[g].method IN
       workers' = [workers EXCEPT ![g] =
          [at |-> "unlock", method |-> m,
           seen |-> IF m = "Exceeded" THEN Exceeded(budget)
                    ELSE IF m = "Summary" THEN Summary(budget)
                    ELSE <<TotalCost(budget)>>,
           snap |-> Counters(budget)]]
    /\ UNCHANGED <<budget, mu, ledger, btRest>>

\* defer bt.mu.Unlock() and the return of the method.
TrackerUnlock(g) ==
    /\ workers[g].at = "unlock"
    /\ mu' = Unlocked
    /\ workers' = [workers EXCEPT ![g] =
                     IF workers[g].method = "Record" THEN [at |-> "idle"]
                     ELSE [at |-> "idle", snap |-> workers[g].snap]]
    /\ ledger' = [ledger EXCEPT !.calls = @ + 1]
    /\ UNCHANGED <<budget, btRest>>

\* Wall time passes since startedAt.
TrackerTick ==
    /\ budget.elapsed < MaxElapsed
    /\ budget' = [budget EXCEPT !.elapsed = @ + 1]
    /\ ledger' = FirstMet(ledger, budget')
    /\ UNCHANGED <<mu, workers, btRest>>

BudgetInit ==
    /\ SbIdle /\ ExIdle /\ FdIdle /\ BtIdle /\ AdIdle /\ ExtIdle
    /\ pc = [at |-> "idle"]
    /\ messages = <<>>
    /\ stream = <<>>
    /\ turn = NewTurn
    /\ budget \in { NewBudgetTracker(b) : b \in TrackerBudgets }
    /\ events = <<>>
    /\ closed = FALSE
    /\ store = [status |-> "running", cost |-> 0, findings |-> <<>>]
    /\ cancelled = FALSE
    /\ hist = NoHist

BudgetNext ==
    \/ \E g \in Goroutines, args \in RecordArgs : CallRecord(g, args)
    \/ \E g \in Goroutines, method \in ReadMethods : CallRead(g, method)
    \/ \E g \in Goroutines : TrackerLock(g)
    \/ \E g \in Goroutines : RecordLoad(g)
    \/ \E g \in Goroutines : RecordStore(g)
    \/ \E g \in Goroutines : TrackerRead(g)
    \/ \E g \in Goroutines : TrackerUnlock(g)
    \/ TrackerTick

BudgetSpec == BudgetInit /\ [][BudgetNext]_vars

\* C16: whatever the interleaving of the goroutines, the counters of the
\* tracker are the sums of the arguments of the Record calls made (tokens,
\* cost, tool calls) and their number (turns): no update is lost; and no
\* counter is ever below a value an earlier read has seen.
C16_NoLostUpdate ==
    /\ budget.tokens = ledger.tokens
    /\ budget.costUSD = ledger.costUSD
    /\ budget.toolCalls = ledger.toolCalls
    /\ budget.turns = ledger.turns
    /\ \A g \in Goroutines :
          "snap" \in DOMAIN workers[g]
             => /\ workers[g].snap.tokens <= budget.tokens
                /\ workers[g].snap.costUSD <= budget.costUSD
                /\ workers[g].snap.toolCalls <= budget.toolCalls
                /\ workers[g].snap.turns <= budget.turns

\* Two Record calls are through, a read has been made, and a goroutine is
\* waiting for the mutex another one holds inside Record.
C16_Witness ==
    /\ ledger.turns >= 2 /\ ledger.tokens >= 1
    /\ \E g, h \in Goroutines :
          /\ workers[g].at = "lock" /\ workers[g].method = "Record"
          /\ workers[h].at = "loaded" /\ mu = h

\* C17: Exceeded returns a reason exactly when some dimension has a
\* non-zero limit that its counter has reached; a zero limit never gives a
\* reason, and a tracker with an all-zero Budget never reports exceeded.
C17_ExceededIff ==
    /\ (Exceeded(budget) # <<>>) <=> (MetDims(budget) # {})
    /\ budget.budget = NoLimits => Exceeded(budget) = <<>>
    /\ (budget.budget.MaxTokens = 0 /\ Exceeded(budget) # <<>>)
          => Exceeded(budget)[1] # "token limit reached"
    /\ (budget.budget.MaxCostUSD = 0 /\ Exceeded(budget) # <<>>)
          => Exceeded(budget)[1] # "cost limit reached"
    /\ (budget.budget.MaxToolCalls = 0 /\ Exceeded(budget) # <<>>)
          => Exceeded(budget)[1] # "tool call limit reached"
    /\ (budget.budget.MaxDuration = 0 /\ Exceeded(budget) # <<>>)
          => Exceeded(budget)[1] # "duration limit reached"
    /\ (budget.budget.MaxTurns = 0 /\ Exceeded(budget) # <<>>)
          => Exceeded(budget)[1] # "turn limit reached"

\* A limit has just been reached exactly while an unlimited dimension has a
\* counter above zero.
C17_Witness ==
    /\ budget.budget.MaxTokens = 0 /\ budget.tokens > 0
    /\ budget.budget.MaxTurns = TrackerLimit /\ budget.turns = TrackerLimit
    /\ Exceeded(budget) = <<"turn limit reached", TrackerLimit, TrackerLimit>>

\* The reason of a dimension, with its counter and its limit.
ReasonOf(d, bt) ==
    IF d = "token"
      THEN <<"token limit reached", bt.tokens, bt.budget.MaxTokens>>
    ELSE IF d = "cost"
      THEN <<"cost limit reached", bt.costUSD, bt.budget.MaxCostUSD>>
    ELSE IF d = "tool call"
      THEN <<"tool call limit reached", bt.toolCalls, bt.budget.MaxToolCalls>>
    ELSE IF d = "duration"
      THEN <<"duration limit reached", bt.elapsed, bt.budget.MaxDuration>>
    ELSE <<"turn limit reached", bt.turns, bt.budget.MaxTurns>>

\* C18 (as stated, for the dimensions that Record calls advance): when
\* more than one of them has met its limit and the duration limit has not
\* been met, the reason Exceeded returns is that of a dimension that was
\* the first to meet its limit in the history of Record calls, with that
\* dimension's counter and limit.
C18_FirstWins ==
    (Cardinality(MetDims(budget)) > 1 /\ "duration" \notin MetDims(budget))
       => \E d \in ledger.first : Exceeded(budget) = ReasonOf(d, budget)

-----------------------------------------------------------------------------
(* Provider adapters: AnthropicProvider.processStream and                  *)
(* OpenAICompatProvider.processStream.  The vendor response stream is a    *)
(* sequence of vendor events read one at a time; the adapter sends         *)
(* provider Events.  JSON text is a sequence of tokens.                    *)

\* Tool-use blocks (function calls) a vendor response carries at most.
MaxBlocks == 2

\* The JSON documents a vendor streams as tool input, token by token.
JSONTexts == { <<"{", "}">>, <<"{", "k:1", "}">> }

\* json.Unmarshal into a map[string]any: the object as a set of pairs, or
\* an error for a text that is not one complete JSON object.
Unmarshal(text) ==
    IF text = <<"{", "}">> THEN [err |-> FALSE, params |-> {}]
    ELSE IF text = <<"{", "k:1", "}">>
         THEN [err |-> FALSE, params |-> { <<"k", <<"1">>>> }]
         ELSE [err |-> TRUE, params |-> {}]

\* The Params of the tool_call assembled from the buffered text.
ParamsOf(text) ==
    IF Unmarshal(text).err THEN { <<"_raw", text>> }
    ELSE Unmarshal(text).params

\* The ways a vendor cuts a text into one or two non-empty fragments.
Splits(text) ==
    { <<text>> }
    \cup { <<SubSeq(text, 1, k), SubSeq(text, k + 1, Len(text))>> :
             k \in 1..(Len(text) - 1) }

FragSplits == UNION { Splits(t) : t \in JSONTexts }

RECURSIVE Concat(_)
Concat(frags) ==
    IF frags = <<>> THEN <<>> ELSE Head(frags) \o Concat(Tail(frags))

\* The function call number i of a response, as the vendor means it.
VendorCall(vendor, i, frags) ==
    [ID |-> <<vendor, i>>, Name |-> "view_lines",
     Params |-> Unmarshal(Concat(frags)).params]

\* Anthropic stream events: the variants processStream switches on.
AnthropicEvent(type, variant, id, name, text) ==
    [type |-> type, variant |-> variant, ID |-> id, Name |-> name,
     text |-> text]

AnthropicTextBlock ==
    << AnthropicEvent("content_block_start", "text", <<>>, "", <<>>),
       AnthropicEvent("content_block_delta", "text_delta", <<>>, "", <<"t">>),
       AnthropicEvent("content_block_stop", "", <<>>, "", <<>>) >>

AnthropicToolBlock(i, frags) ==
    << AnthropicEvent("content_block_start", "tool_use", <<"anthropic", i>>,
                      "view_lines", <<>>) >>
    \o [j \in 1..Len(frags) |->
          AnthropicEvent("content_block_delta", "input_json_delta", <<>>, "",
                         frags[j])]
    \o << AnthropicEvent("content_block_stop", "", <<>>, "", <<>>) >>

\* The well-formed Anthropic responses of n content blocks, each with the
\* function calls it contains.
RECURSIVE AnthropicStreams(_)
AnthropicStreams(n) ==
    IF n = 0 THEN { [events |-> <<>>, calls |-> <<>>] }
    ELSE LET shorter == AnthropicStreams(n - 1) IN
         { [events |-> s.events \o AnthropicTextBlock, calls |-> s.calls] :
             s \in shorter }
         \cup { [events |-> s.events
                              \o AnthropicToolBlock(Len(s.calls) + 1, f),
                 calls |-> Append(s.calls,
                                  VendorCall("anthropic", Len(s.calls) + 1, f))] :
                  s \in shorter, f \in FragSplits }

\* OpenAI-compatible stream chunks: choices is len(chunk.Choices); the
\* other fields are those of chunk.Choices[0].
Chunk(choices, content, toolCalls, finish) ==
    [choices |-> choices, content |-> content, toolCalls |-> toolCalls,
     finish |-> finish]

\* One entry of choice.Delta.ToolCalls.
ToolCallDelta(index, id, name, arguments) ==
    [Index |-> index, ID |-> id, Function |-> [Name |-> name,
                                              Arguments |-> arguments]]

\* The chunks of function call i: its id and name first, then its argument
\* fragments under the same index.
OpenAICallChunks(i, frags) ==
    << Chunk(1, <<>>, <<ToolCallDelta(i - 1, <<"openai", i>>, "view_lines",
                                     <<>>)>>, "") >>
    \o [j \in 1..Len(frags) |->
          Chunk(1, <<>>, <<ToolCallDelta(i - 1, <<>>, "", frags[j])>>, "")]

RECURSIVE OpenAICalls(_)
OpenAICalls(n) ==
    IF n = 0 THEN { [events |-> <<>>, calls |-> <<>>] }
    ELSE { [events |-> s.events \o OpenAICallChunks(n, f),
            calls |-> Append(s.calls, VendorCall("openai", n, f))] :
             s \in OpenAICalls(n - 1), f \in FragSplits }

\* finish_reason values a compatible vendor closes a response with.
FinishReasons == { "tool_calls", "stop" }

\* The well-formed OpenAI-compatible responses: optional text, the calls,
\* the chunk with the finish reason, the usage chunk without choices.
OpenAIStreams ==
    { [events |-> text \o s.events
                    \o << Chunk(1, <<>>, <<>>, fr), Chunk(0, <<>>, <<>>, "") >>,
       calls |-> s.calls] :
        text \in { <<>>, <<Chunk(1, <<"t">>, <<>>, "")>> },
        s \in UNION { OpenAICalls(n) : n \in 0..MaxBlocks },
        fr \in FinishReasons }

\* Every response read to its end, and every response cut short by a
\* transport error (stream.Err() non-nil).
WiresOf(vendor, streams) ==
    { [vendor |-> vendor, events |-> s.events, err |-> FALSE,
       calls |-> s.calls] : s \in streams }
    \cup UNION { { [vendor |-> vendor, events |-> SubSeq(s.events, 1, k),
                    err |-> TRUE, calls |-> s.calls] :
                     k \in 0..Len(s.events) } : s \in streams }

\* json.Marshal of a map[string]any, the inverse of Unmarshal.
Marshal(params) ==
    IF params = {} THEN <<"{", "}">> ELSE <<"{", "k:1", "}">>

\* One NDJSON line of an Ollama response as StreamChat decodes it: an
\* empty line, a line that is not JSON, or an ollamaStreamChunk.
OllamaLine(kind, content, toolCalls, done, error) ==
    [kind |-> kind, Content |-> content, ToolCalls |-> toolCalls,
     Done |-> done, Error |-> error]

OllamaLines ==
    { OllamaLine("empty", <<>>, <<>>, FALSE, <<>>),
      OllamaLine("malformed", <<>>, <<>>, FALSE, <<>>),
      OllamaLine("chunk", <<"t">>, <<>>, FALSE, <<>>),
      OllamaLine("chunk", <<>>,
                 <<[Name |-> "view_lines", Arguments |-> {}]>>, FALSE, <<>>),
      OllamaLine("chunk", <<>>, <<>>, TRUE, <<>>),
      OllamaLine("chunk", <<>>, <<>>, FALSE, <<"model not found">>) }

\* The Ollama responses of n lines; the connection may end after any line.
RECURSIVE OllamaStreams(_)
OllamaStreams(n) ==
    IF n = 0 THEN { [events |-> <<>>, calls |-> <<>>] }
    ELSE { [events |-> Append(s.events, l), calls |-> <<>>] :
             s \in OllamaStreams(n - 1), l \in OllamaLines }

Wires ==
    WiresOf("anthropic", UNION { AnthropicStreams(n) : n \in 0..MaxBlocks })
    \cup WiresOf("openai", OpenAIStreams)
    \cup { [vendor |-> "ollama", events |-> s.events, err |-> e,
            calls |-> s.calls] :
              s \in UNION { OllamaStreams(n) : n \in 0..MaxBlocks },
              e \in BOOLEAN }

\* The provider Events an adapter sends.
TextDeltaEvent(text) == [Type |-> "text_delta", Text |-> text]
ToolCallEvent(id, name, params) ==
    [Type |-> "tool_call",
     ToolCall |-> [ID |-> id, Name |-> name, Params |-> params]]

adRest == <<pc, messages, stream, turn, budget, events, closed, store,
            cancelled, hist, sbVars, exVars, fdVars, btVars, extVars>>

\* One iteration of the loop of AnthropicProvider.processStream.
AnthropicProcess ==
    /\ wire.vendor = "anthropic"
    /\ ~adapter.closed
    /\ wire.events # <<>>
    /\ LET evt == Head(wire.events) IN
       /\ wire' = [wire EXCEPT !.events = Tail(wire.events)]
       /\ CASE evt.type = "content_block_start" /\ evt.variant = "tool_use" ->
                 /\ adapter' = [adapter EXCEPT !.currentToolID = evt.ID,
                                               !.currentToolName = evt.Name,
                                               !.jsonBuf = <<>>]
                 /\ emitted' = emitted
            [] evt.type = "content_block_delta"
                 /\ evt.variant = "text_delta" ->
                 /\ emitted' = Append(emitted, TextDeltaEvent(evt.text))
                 /\ adapter' = adapter
            [] evt.type = "content_block_delta"
                 /\ evt.variant = "input_json_delta" ->
                 /\ adapter' = [adapter EXCEPT !.jsonBuf = @ \o evt.text]
                 /\ emitted' = emitted
            [] evt.type = "content_block_stop"
                 /\ adapter.currentToolID # <<>> ->
                 /\ emitted' = Append(emitted,
                                      ToolCallEvent(adapter.currentToolID,
                                                    adapter.currentToolName,
                                                    ParamsOf(adapter.jsonBuf)))
                 /\ adapter' = [adapter EXCEPT !.currentToolID = <<>>,
                                               !.currentToolName = ""]
            [] OTHER -> UNCHANGED <<adapter, emitted>>
    /\ UNCHANGED adRest

\* A new toolCallAccumulator.
NoAccumulator == [id |-> <<>>, name |-> "", args |-> <<>>]

\* toolCalls after one entry of choice.Delta.ToolCalls.
Accumulate(toolCalls, tc) ==
    LET acc == IF tc.Index \in DOMAIN toolCalls THEN toolCalls[tc.Index]
               ELSE NoAccumulator
        upd == [id |-> IF tc.ID # <<>> THEN tc.ID ELSE acc.id,
                name |-> IF tc.Function.Name # "" THEN tc.Function.Name
                         ELSE acc.name,
                args |-> IF tc.Function.Arguments # <<>>
                         THEN acc.args \o tc.Function.Arguments
                         ELSE acc.args]
    IN [idx \in DOMAIN toolCalls \cup {tc.Index} |->
          IF idx = tc.Index THEN upd ELSE toolCalls[idx]]

RECURSIVE AccumulateAll(_, _)
AccumulateAll(toolCalls, deltas) ==
    IF deltas = <<>> THEN toolCalls
    ELSE AccumulateAll(Accumulate(toolCalls, Head(deltas)), Tail(deltas))

\* The orders in which a range over a Go map may visit its keys.
RangeOrders(m) ==
    { o \in [1..Cardinality(DOMAIN m) -> DOMAIN m] :
        \A i, j \in DOMAIN o : i # j => o[i] # o[j] }

\* One iteration of the loop of OpenAICompatProvider.processStream.
OpenAIProcess ==
    /\ wire.vendor = "openai"
    /\ ~adapter.closed
    /\ wire.events # <<>>
    /\ LET chunk == Head(wire.events)
           text == IF chunk.content # <<>>
                   THEN <<TextDeltaEvent(chunk.content)>> ELSE <<>>
           toolCalls == AccumulateAll(adapter.toolCalls, chunk.toolCalls)
       IN
       /\ wire' = [wire EXCEPT !.events = Tail(wire.events)]
       /\ IF chunk.choices = 0
          THEN UNCHANGED <<adapter, emitted>>
          ELSE /\ adapter' = [adapter EXCEPT !.toolCalls = toolCalls]
               /\ IF chunk.finish = "tool_calls"
                  THEN \E o \in RangeOrders(toolCalls) :
                         emitted' = emitted \o text
                            \o [i \in DOMAIN o |->
                                  ToolCallEvent(toolCalls[o[i]].id,
                                                toolCalls[o[i]].name,
                                                ParamsOf(toolCalls[o[i]].args))]
                  ELSE emitted' = emitted \o text
    /\ UNCHANGED adRest

\* After the loop, in both adapters: the error event for a transport
\* error, the done event otherwise; the Events channel is closed.
ProcessEnd ==
    /\ wire.vendor \in {"anthropic", "openai"}
    /\ ~adapter.closed
    /\ wire.events = <<>>
    /\ emitted' = Append(emitted,
                         IF wire.err
                         THEN [Type |-> "error", Error |-> <<"stream failed">>]
                         ELSE [Type |-> "done",
                               Usage |-> [InputTokens |-> 0,
                                          OutputTokens |-> 0,
                                          CostUSD |-> 0]])
    /\ adapter' = [adapter EXCEPT !.closed = TRUE]
    /\ UNCHANGED <<wire, adRest>>

\* The StreamEvent for a tool call of an Ollama chunk.
ToolUseEvent(tc) ==
    [Type |-> "tool_use", Tool |-> tc.Name, Input |-> Marshal(tc.Arguments)]

\* One iteration of the scanner loop of OllamaProvider.StreamChat.
OllamaProcess ==
    /\ wire.vendor = "ollama"
    /\ ~adapter.closed
    /\ wire.events # <<>>
    /\ LET chunk == Head(wire.events)
           text == IF chunk.Content # <<>>
                   THEN <<[Type |-> "text_delta", Content |-> chunk.Content]>>
                   ELSE <<>>
           calls == [i \in DOMAIN chunk.ToolCalls |->
                       ToolUseEvent(chunk.ToolCalls[i])]
       IN
       /\ wire' = [wire EXCEPT !.events = Tail(wire.events)]
       /\ IF chunk.kind \in {"empty", "malformed"}
          THEN UNCHANGED <<adapter, emitted>>
          ELSE IF chunk.Error # <<>>
          THEN /\ emitted' = Append(emitted, [Type |-> "error",
                                              Content |-> chunk.Error])
               /\ adapter' = [adapter EXCEPT !.closed = TRUE]
          ELSE IF chunk.Done
          THEN /\ emitted' = emitted \o text \o calls
                                 \o <<[Type |-> "done"]>>
               /\ adapter' = [adapter EXCEPT !.closed = TRUE]
          ELSE /\ emitted' = emitted \o text \o calls
               /\ adapter' = adapter
    /\ UNCHANGED adRest

\* After the scanner loop of StreamChat: an error event only when the
\* scanner failed; the channel is closed.
OllamaEnd ==
    /\ wire.vendor = "ollama"
    /\ ~adapter.closed
    /\ wire.events = <<>>
    /\ emitted' = IF wire.err
                  THEN Append(emitted, [Type |-> "error",
                                        Content |-> <<"stream failed">>])
                  ELSE emitted
    /\ adapter' = [adapter EXCEPT !.closed = TRUE]
    /\ UNCHANGED <<wire, adRest>>

AdapterInit ==
    /\ SbIdle /\ ExIdle /\ RnIdle /\ FdIdle /\ BtIdle /\ ExtIdle
    /\ wire \in Wires
    /\ adapter = NewAdapter
    /\ emitted = <<>>

AdapterNext ==
    \/ AnthropicProcess \/ OpenAIProcess \/ ProcessEnd
    \/ OllamaProcess \/ OllamaEnd

AdapterSpec == AdapterInit /\ [][AdapterNext]_vars

\* The emitted tool_call events that carry the given call.
EventsCarrying(c) ==
    { i \in DOMAIN emitted :
        emitted[i].Type = "tool_call" /\ emitted[i].ToolCall = c }

\* C20 (as stated): when a response stream has been read to its end
\* without a transport error, every function call the vendor response
\* contains has been emitted as exactly one tool_call event carrying the
\* call's id, its name and the parameter object assembled from all of its
\* fragments.
C20_OneCallOneEvent ==
    (adapter.closed /\ ~wire.err)
       => \A k \in DOMAIN wire.calls :
            Cardinality(EventsCarrying(wire.calls[k])) = 1

\* The tool_call events sent so far, in the order they were sent.
IsToolCallEvent(e) == e.Type = "tool_call"
ToolCallsEmitted == SelectSeq(emitted, IsToolCallEvent)

\* C21 (as stated): the tool_call events of one response appear in the
\* order in which the vendor surfaced the calls: of two tool_call events,
\* the one sent first carries the call with the lower position in the
\* response (tool_calls index, content-block order).
C21_VendorOrder ==
    \A i, j \in DOMAIN ToolCallsEmitted :
       i < j => ToolCallsEmitted[i].ToolCall.ID[2]
                   < ToolCallsEmitted[j].ToolCall.ID[2]

\* Terminal events of a provider stream.
IsTerminal(e) == e.Type \in {"done", "error"}

\* C22 (as stated): when the adapter has closed its stream, exactly one
\* terminal event (done or error) has been sent and it is the last event
\* of the stream.
C22_OneTerminalLast ==
    adapter.closed
       => /\ emitted # <<>>
          /\ IsTerminal(emitted[Len(emitted)])
          /\ \A i \in 1..(Len(emitted) - 1) : ~IsTerminal(emitted[i])

-----------------------------------------------------------------------------
(* SSEBroker (internal/api): one session id, the channels made for it, the *)
(* goroutines inside Publish and the stream handlers reading.              *)

\* Capacity of a session channel (256 in the source) and the number of
\* events published, channels made and handlers' reads explored.
ChanCap == 2
MaxPublishes == 3
MaxChans == 2

bkRest == <<sbVars, exVars, rnVars, fdVars, btVars, adVars, chVars, sseRun,
           toolLogger,
            sseEvent,
            view,
            merge,
            session>>

\* make(chan sse.Event, 256)
NewChan == [buf |-> <<>>, closed |-> FALSE]

\* GetOrCreateChannel: the broker afterwards and the channel returned.
GetOrCreateChannel(b) ==
    IF b.channel # 0 THEN [broker |-> b, ch |-> b.channel]
    ELSE [broker |-> [b EXCEPT !.chans = Append(b.chans, NewChan),
                               !.channel = Len(b.chans) + 1],
          ch |-> Len(b.chans) + 1]

\* A faulty variant of Receive that takes the newest buffered event.
ReceiveNewest(buf) == SubSeq(buf, 1, Len(buf) - 1)

\* What a receive leaves in the buffer of a channel: all but the oldest.
Receive(buf) == Tail(buf)

\* Every other goroutine inside Publish on channel ch has had company.
Disturb(ps, q, ch) ==
    [p \in Publishers |->
       IF p # q /\ ps[p].pc \in {"send", "drain", "retry"} /\ ps[p].ch = ch
       THEN [ps[p] EXCEPT !.alone = FALSE] ELSE ps[p]]

\* handleStartScan: the session's channel is made for the runner.
StartScan ==
    /\ ~broker.scanned
    /\ Len(broker.chans) < MaxChans
    /\ broker' = [GetOrCreateChannel(broker).broker EXCEPT !.scanned = TRUE]
    /\ UNCHANGED <<pubs, subs, bkRest>>

\* Publish, the lookup under RLock: return if the session has no channel.
PublishLookup(p) ==
    /\ pubs[p].pc = "idle"
    /\ broker.next <= MaxPublishes
    /\ broker' = [broker EXCEPT !.next = @ + 1]
    /\ pubs' = [pubs EXCEPT ![p] =
                  IF broker.channel = 0
                  THEN [pc |-> "idle"]
                  ELSE [pc |-> "send", ch |-> broker.channel,
                        event |-> broker.next,
                        start |-> broker.chans[broker.channel].buf,
                        alone |-> TRUE]]
    /\ UNCHANGED <<subs, bkRest>>

\* What a completed Publish call leaves on record.
Published(pub, buf, dropped) ==
    [pc |-> "idle", event |-> pub.event, start |-> pub.start,
     alone |-> pub.alone, end |-> buf, dropped |-> dropped]

\* Publish, the first select: send if there is room.
PublishSend(p) ==
    /\ pubs[p].pc = "send"
    /\ LET ch == pubs[p].ch
           c == broker.chans[ch]
       IN IF c.closed
          THEN /\ pubs' = [pubs EXCEPT ![p] = [pc |-> "panic"]]
               /\ broker' = broker
          ELSE IF Len(c.buf) < ChanCap
          THEN /\ broker' = [broker EXCEPT
                               !.chans[ch].buf = Append(@, pubs[p].event)]
               /\ pubs' = [Disturb(pubs, p, ch) EXCEPT ![p] =
                             Published(pubs[p], Append(c.buf, pubs[p].event),
                                       FALSE)]
          ELSE /\ pubs' = [pubs EXCEPT ![p].pc = "drain"]
               /\ broker' = broker
    /\ UNCHANGED <<subs, bkRest>>

\* Publish, the second select: take one event off the channel if any.
PublishDrain(p) ==
    /\ pubs[p].pc = "drain"
    /\ LET ch == pubs[p].ch
           c == broker.chans[ch]
       IN IF c.buf # <<>>
          THEN /\ broker' = [broker EXCEPT !.chans[ch].buf = Receive(@)]
               /\ pubs' = [Disturb(pubs, p, ch) EXCEPT ![p].pc = "retry"]
          ELSE /\ broker' = broker
               /\ pubs' = [pubs EXCEPT ![p].pc = "retry"]
    /\ UNCHANGED <<subs, bkRest>>

\* Publish, the third select: send if there is room, else drop and log.
PublishRetry(p) ==
    /\ pubs[p].pc = "retry"
    /\ LET ch == pubs[p].ch
           c == broker.chans[ch]
       IN IF c.closed
          THEN /\ pubs' = [pubs EXCEPT ![p] = [pc |-> "panic"]]
               /\ broker' = broker
          ELSE IF Len(c.buf) < ChanCap
          THEN /\ broker' = [broker EXCEPT
                               !.chans[ch].buf = Append(@, pubs[p].event)]
               /\ pubs' = [Disturb(pubs, p, ch) EXCEPT ![p] =
                             Published(pubs[p], Append(c.buf, pubs[p].event),
                                       FALSE)]
          ELSE /\ broker' = broker
               /\ pubs' = [pubs EXCEPT ![p] =
                             Published(pubs[p], c.buf, TRUE)]
    /\ UNCHANGED <<subs, bkRest>>

\* handleSessionStream: Subscribe, which is GetOrCreateChannel.
Subscribe(r) ==
    /\ subs[r].ch = 0
    /\ broker.channel # 0 \/ Len(broker.chans) < MaxChans
    /\ broker' = GetOrCreateChannel(broker).broker
    /\ subs' = [subs EXCEPT ![r].ch = GetOrCreateChannel(broker).ch,
                            ![r].late = broker.closes > 0]
    /\ UNCHANGED <<pubs, bkRest>>

\* handleSessionStream: one receive of the select loop, an event or, on
\* a closed and drained channel, the end of the stream.
StreamReceive(r) ==
    /\ subs[r].ch # 0
    /\ ~subs[r].ended
    /\ LET ch == subs[r].ch
           c == broker.chans[ch]
       IN IF c.buf # <<>>
          THEN /\ broker' = [broker EXCEPT !.chans[ch].buf = Receive(@)]
               /\ subs' = [subs EXCEPT ![r].got = Append(@, Head(c.buf))]
               /\ pubs' = Disturb(pubs, r, ch)
          ELSE /\ c.closed
               /\ subs' = [subs EXCEPT ![r].ended = TRUE]
               /\ UNCHANGED <<broker, pubs>>
    /\ UNCHANGED bkRest

\* CloseChannel: close and forget the session's channel, if it has one.
CloseChannel ==
    /\ broker.channel # 0
    /\ broker' = [broker EXCEPT !.chans[broker.channel].closed = TRUE,
                                !.channel = 0,
                                !.closes = @ + 1]
    /\ pubs' = Disturb(pubs, "closer", broker.channel)
    /\ UNCHANGED <<subs, bkRest>>

BrokerInit == SbIdle /\ ExIdle /\ RnIdle /\ RestIdle

BrokerNext ==
    \/ StartScan
    \/ \E p \in Publishers :
         PublishLookup(p) \/ PublishSend(p) \/ PublishDrain(p)
            \/ PublishRetry(p)
    \/ \E r \in Subscribers : Subscribe(r) \/ StreamReceive(r)
    \/ CloseChannel

BrokerSpec == BrokerInit /\ [][BrokerNext]_vars

\* The Publish calls that have returned after having found the buffer
\* full, with no other goroutine on the channel in the meantime.
FullAndAlone(p) ==
    /\ pubs[p].pc = "idle"
    /\ "end" \in DOMAIN pubs[p]
    /\ pubs[p].alone
    /\ Len(pubs[p].start) = ChanCap

\* C23 (as stated): a Publish call that found the buffer full and ran with
\* no concurrent reader or publisher leaves the buffer at capacity, with
\* exactly the oldest event removed, the other events in their order and
\* the incoming event at the tail; the incoming event was not dropped.
C23_DropOldest ==
    \A p \in Publishers :
       FullAndAlone(p)
          => /\ pubs[p].end = Tail(pubs[p].start) \o <<pubs[p].event>>
             /\ Len(pubs[p].end) = ChanCap
             /\ ~pubs[p].dropped

C23_Witness == \E p \in Publishers : FullAndAlone(p)

\* C24 (as stated): once CloseChannel has closed the session's channel, a
\* handler reading the session's stream is at end-of-stream as soon as
\* nothing is buffered for it, whether it subscribed before or after the
\* close: the channel it reads is closed.
C24_EndOfStream ==
    \A r \in Subscribers :
       (broker.closes > 0 /\ subs[r].ch # 0
          /\ broker.chans[subs[r].ch].buf = <<>>)
          => broker.chans[subs[r].ch].closed

-----------------------------------------------------------------------------
(* One tool turn of the CLI runner over the ToolExecutor: step 9 of        *)
(* Runner.run with executor.Execute run as the executor's own steps.       *)

\* The tool-call blocks of a message, in order.
ToolCallBlocks(msg) ==
    LET IsCall(b) == b.Type = "tool_call" IN SelectSeq(msg.Content, IsCall)

\* The runner whose turn is followed, as a caller of Execute.
RunnerCaller == "agent_a"

\* The tool calls a stream may have left in a turn: executor tools by
\* registered and by unknown names.
TurnCalls ==
    UNION { [1..n -> { [Name |-> name, Params |-> [file |-> "main.go"]] :
                         name \in ToolNames }] : n \in 1..MaxCalls }

\* fmt.Sprintf("execution error: %s", err)
ExecutionErrorResult == [Content |-> <<"execution error">>, IsError |-> TRUE]

\* The records of the calls that have returned to caller c.
ReturnedTo(c) ==
    LET Mine(r) == r.caller = c IN SelectSeq(returned, Mine)

\* executeTool, default branch: r.executor.Execute(tc.Name, tc.Params).
RunExecuteCall ==
    /\ pc.at = "tools"
    /\ Len(turn.toolResults) < Len(turn.toolCalls)
    /\ ExecuteBegin(RunnerCaller, CurrentCall.Name, CurrentCall.Params)
    /\ pc' = [at |-> "execute"]
    /\ UNCHANGED <<messages, stream, turn, budget, events, closed, store,
                   cancelled, hist, sbVars, restVars>>

\* executeTool, default branch: Execute has returned; a Go error becomes
\* an error result, and the tool_result event is emitted.
RunExecuteReturn ==
    /\ pc.at = "execute"
    /\ exec[RunnerCaller].pc = "idle"
    /\ LET mine == ReturnedTo(RunnerCaller)
           ret == mine[Len(mine)]
           result == IF ret.err # "nil" THEN ExecutionErrorResult
                     ELSE ret.result
       IN /\ turn' = [turn EXCEPT !.result = result]
          /\ pc' = EmitThen(RunEvent(EventToolResult,
                                     truncateResult(result.Content),
                                     CurrentCall.Name, result.IsError),
                            "toolReturn")
    /\ UNCHANGED <<messages, stream, budget, events, closed, store, cancelled,
                   hist, sbVars, exVars, restVars>>

\* The runner after the stream of its first provider call has left tool
\* calls in the turn and the assistant message has been appended.
TurnInit ==
    /\ SbIdle /\ ExIdle /\ RestIdle
    /\ pc = [at |-> "tools"]
    /\ \E calls \in TurnCalls :
         /\ turn = [NewTurn EXCEPT !.toolCalls =
                      [i \in DOMAIN calls |->
                         [ID |-> <<1, i>>, Name |-> calls[i].Name,
                          Params |-> calls[i].Params]]]
         /\ messages = <<buildAssistantMessage(<<>>, turn.toolCalls)>>
    /\ stream = <<>>
    /\ budget = NewBudgetTracker(NoLimits)
    /\ events = <<>>
    /\ closed = FALSE
    /\ store = [status |-> "running", cost |-> 0, findings |-> <<>>]
    /\ cancelled = FALSE
    /\ hist = [NoHist EXCEPT !.calls = 1, !.requests = << <<>> >>]

TurnNext ==
    \/ RunExecuteCall
    \/ RunExecuteReturn
    \/ \E id \in DOMAIN tool : ToolBegin(id)
    \/ \E id \in DOMAIN tool, outcome \in ToolOutcomes : ToolFinish(id, outcome)
    \/ ExecuteTimeout(RunnerCaller)
    \/ ExecuteReceive(RunnerCaller)
    \/ ExecuteLog(RunnerCaller)
    \/ Tick
    \/ RunEmit
    \/ RunToolReturn
    \/ RunAppendResults
    \/ ObserverReceive

TurnSpec == TurnInit /\ [][TurnNext]_vars

\* A call that ended in an error: an unknown tool name, a timeout, or a
\* diagnostic of the tool itself.
EndedInError(r) ==
    \/ r.name \notin RegisteredTools
    \/ r.toolState \in {"spawned", "running"}
    \/ r.result.Content \in { <<"sandbox: rejected">>,
                              <<"missing required parameter">> }

\* C26: every call of Execute returns a nil Go error, with IsError set when
\* the call ended in an error; the runner appends the i-th result Execute
\* returned to it as the result block of the i-th call, isError included;
\* and an error result does not end the turn: the run leaves through no
\* exit, and it is back at the top of the loop, where the next provider
\* call is made, with one result block per tool call of the turn.
C26_ErrorsAreResults ==
    /\ \A i \in DOMAIN returned :
          /\ returned[i].err = "nil"
          /\ EndedInError(returned[i]) => returned[i].result.IsError
    /\ \A i \in DOMAIN turn.toolResults :
          /\ i <= Len(ReturnedTo(RunnerCaller))
          /\ turn.toolResults[i]
                = ResultBlock(turn.toolCalls[i],
                              ReturnedTo(RunnerCaller)[i].result)
    /\ hist.exit = "none"
    /\ pc.at # "returned"
    /\ pc.at = "top" =>
          /\ Len(messages) = 2
          /\ Len(messages[2].Content) = Len(ToolCallBlocks(messages[1]))

\* The first of two tool calls ended in an error, the second was answered
\* too, and the loop is back at its top with both results.
C26_Witness ==
    /\ pc.at = "top"
    /\ Len(messages) = 2
    /\ Len(messages[2].Content) = 2
    /\ messages[2].Content[1].ToolResult.IsError

-----------------------------------------------------------------------------
(* The agent channel of collaborative mode: handlePostChannel and          *)
(* handleReadChannel of the two runners over the channel_messages table.   *)

\* Messages posted in one session, at most.
MaxPosts == 3

chRest == <<sbVars, exVars, rnVars, fdVars, btVars, adVars, bkVars, sseRun,
           toolLogger,
            sseEvent,
            view,
            merge,
            session>>

\* handlePostChannel: the partner of an agent.
Partner(a) == IF a = "agent_b" THEN "agent_a" ELSE "agent_b"

\* PollMessages: the ids of the unread rows addressed to toAgent, oldest
\* first.
PollMessages(table, toAgent) ==
    LET Unread(m) == m.to_agent = toAgent /\ ~m.read
        hits == SelectSeq(table, Unread)
    IN [i \in DOMAIN hits |-> hits[i].id]

\* MarkMessagesRead: every unread row addressed to toAgent becomes read.
MarkMessagesRead(table, toAgent) ==
    [i \in DOMAIN table |->
       IF table[i].to_agent = toAgent /\ ~table[i].read
       THEN [table[i] EXCEPT !.read = TRUE] ELSE table[i]]

\* post_channel by agent a: Channel.Post inserts one unread row addressed
\* to the partner.
Post(a) ==
    /\ Len(rows) < MaxPosts
    /\ rows' = Append(rows, [id |-> Len(rows) + 1, from_agent |-> a,
                             to_agent |-> Partner(a), read |-> FALSE])
    /\ UNCHANGED <<polls, inbox, chRest>>

\* read_channel by agent a, first store operation of Channel.Poll: with no
\* unread message Poll returns at once.
PollSelect(a) ==
    /\ polls[a].pc = "idle"
    /\ LET msgs == PollMessages(rows, a) IN
       polls' = [polls EXCEPT ![a] =
                   IF msgs = <<>> THEN [pc |-> "idle"]
                   ELSE [pc |-> "mark", msgs |-> msgs]]
    /\ UNCHANGED <<rows, inbox, chRest>>

\* read_channel by agent a, second store operation of Channel.Poll; the
\* messages polled are returned.
PollMark(a) ==
    /\ polls[a].pc = "mark"
    /\ rows' = MarkMessagesRead(rows, a)
    /\ inbox' = [inbox EXCEPT ![a] = @ \o polls[a].msgs]
    /\ polls' = [polls EXCEPT ![a] = [pc |-> "idle"]]
    /\ UNCHANGED chRest

ChannelInit == SbIdle /\ ExIdle /\ RnIdle /\ RestIdle

ChannelNext == \E a \in Agents : Post(a) \/ PollSelect(a) \/ PollMark(a)

ChannelSpec == ChannelInit /\ [][ChannelNext]_vars

\* The ids in a sequence of message ids.
Ids(msgs) == { msgs[i] : i \in DOMAIN msgs }

\* C28 (as stated): no message is returned to its sender, none is returned
\* twice, and none is marked read without having been returned to its
\* addressee by the Poll call that marked it.
C28_ExactlyOnce ==
    /\ \A a \in Agents :
          /\ \A i \in DOMAIN inbox[a] : rows[inbox[a][i]].to_agent = a
          /\ Cardinality(Ids(inbox[a])) = Len(inbox[a])
    /\ \A i \in DOMAIN rows :
          rows[i].read => rows[i].id \in Ids(inbox[rows[i].to_agent])

-----------------------------------------------------------------------------
(* The SSE runner (internal/agent): the transcript over the iterations of  *)
(* Runner.Run, with the context compaction at the top of each iteration.   *)
(* A message is modelled by the number under which it was appended.        *)

\* maxIterations, the compaction threshold and the tail kept.
maxIterations == 50
CompactThreshold == 30
CompactTail == 10

\* Tool calls in one model response, at most.
MaxToolUses == 2

sseRest == <<sbVars, exVars, rnVars, fdVars, btVars, adVars, bkVars, chVars,
            toolLogger,
            sseEvent,
            view,
            merge,
            session>>

\* The last n elements of a sequence.
LastN(s, n) == SubSeq(s, Len(s) - n + 1, Len(s))

\* A faulty variant of Compact that keeps the tail without the first
\* message.
CompactTailOnly(msgs) ==
    IF Len(msgs) > CompactThreshold THEN LastN(msgs, CompactTail) ELSE msgs

\* The context compaction: above the threshold, the first message and the
\* last `tail` messages.
Compact(msgs) ==
    IF Len(msgs) > CompactThreshold
    THEN LET tail == IF CompactTail > Len(msgs) - 1 THEN Len(msgs) - 1
                     ELSE CompactTail
         IN <<msgs[1]>> \o LastN(msgs, tail)
    ELSE msgs

\* The messages numbered from next on, count of them.
Fresh(next, count) == [k \in 1..count |-> next + k - 1]

\* The top of an iteration: compaction, then provider.StreamChat with the
\* transcript.
SseIterate ==
    /\ sseRun.pc = "top"
    /\ sseRun.i < maxIterations
    /\ sseRun' = [sseRun EXCEPT !.pc = "stream",
                                !.before = sseRun.messages,
                                !.messages = Compact(sseRun.messages),
                                !.request = Compact(sseRun.messages),
                                !.calls = @ + 1]
    /\ UNCHANGED sseRest

\* The rest of an iteration with tool calls: the assistant message, if the
\* response had text, and one user message per tool result.
SseAppend ==
    /\ sseRun.pc = "stream"
    /\ \E text \in BOOLEAN, uses \in 1..MaxToolUses :
         LET count == (IF text THEN 1 ELSE 0) + uses IN
         sseRun' = [sseRun EXCEPT !.pc = "top",
                                  !.i = @ + 1,
                                  !.messages = @ \o Fresh(sseRun.next, count),
                                  !.next = @ + count]
    /\ UNCHANGED sseRest

\* The rest of an iteration without tool calls, or with a stream error:
\* Run returns.
SseReturn ==
    /\ sseRun.pc = "stream"
    /\ \E text \in BOOLEAN :
         sseRun' = [sseRun EXCEPT !.pc = "returned",
                                  !.messages =
                                     @ \o Fresh(sseRun.next,
                                                IF text THEN 1 ELSE 0)]
    /\ UNCHANGED sseRest

\* The context is done at the top of an iteration, or the iterations are
\* used up: Run returns with the transcript as it is.
SseStop ==
    /\ sseRun.pc = "top"
    /\ \E ctxDone \in BOOLEAN :
         /\ ctxDone \/ sseRun.i = maxIterations
         /\ sseRun' = [sseRun EXCEPT !.pc = "returned"]
    /\ UNCHANGED sseRest

\* Run starts with the initial user message as the whole transcript.
SseInit ==
    /\ SbIdle /\ ExIdle /\ RnIdle /\ FdIdle /\ BtIdle /\ AdIdle
    /\ BkIdle /\ ChIdle /\ LgIdle /\ EvIdle /\ VwIdle /\ MgIdle /\ SnIdle
    /\ sseRun = [pc |-> "top", i |-> 0, messages |-> <<1>>, next |-> 2,
                 before |-> <<>>, request |-> <<>>, calls |-> 0]

SseNext == SseIterate \/ SseAppend \/ SseReturn \/ SseStop

SseSpec == SseInit /\ [][SseNext]_vars

\* C29: at every provider call, a transcript of more than 30 messages has
\* been replaced by its first message followed by its last 10 in their
\* order, 11 in all; a transcript of 30 or fewer is handed over unchanged;
\* no provider call receives more than 30 messages.
C29_Compaction ==
    sseRun.calls > 0 =>
       /\ Len(sseRun.before) > 30 =>
             /\ sseRun.request
                   = <<sseRun.before[1]>>
                       \o SubSeq(sseRun.before, Len(sseRun.before) - 9,
                                 Len(sseRun.before))
             /\ Len(sseRun.request) = 11
       /\ Len(sseRun.before) <= 30 => sseRun.request = sseRun.before
       /\ Len(sseRun.request) <= 30

\* A provider call has been made after a compaction of a transcript that
\* had itself grown from a compacted one.
C29_Witness ==
    /\ sseRun.calls > 0
    /\ Len(sseRun.before) > 30
    /\ sseRun.before[2] > 2

-----------------------------------------------------------------------------
(* The audit log seen from outside: ToolLogger.Log, ToolLogger.Entries and *)
(* what a caller can do with a returned snapshot. A Go map is a reference: *)
(* an entry holds the addresses of its Params and Metadata maps, and heap  *)
(* gives the contents at each address.                                     *)

\* Entries logged and snapshots taken, at most.
MaxLogged == 2
MaxSnapshots == 2

lgRest == <<sbVars, exVars, rnVars, fdVars, btVars, adVars, bkVars, chVars,
            sseRun,
            sseEvent,
            view,
            merge,
            session>>

\* Contents of a params map and of a metadata map as the executor and the
\* tool made them, and what a caller may write into them.
LoggedParams == {[path |-> "a.go"]}
LoggedMetadata == {[count |-> 1]}
WrittenValue(field) == IF field = "Params" THEN "edited" ELSE 0 - 1

\* The entry a caller may store into its snapshot slice.
ZeroEntry == [ToolName |-> "", Params |-> 0,
              Result |-> [Content |-> "", IsError |-> FALSE, Metadata |-> 0],
              DurationMs |-> 0]

\* What an entry says when its maps are read: the nil map reads as empty.
MapAt(heap, addr) == IF addr = 0 THEN <<>> ELSE heap[addr]

EntryValue(heap, e) ==
    [ToolName |-> e.ToolName, Params |-> MapAt(heap, e.Params),
     Result |-> [Content |-> e.Result.Content, IsError |-> e.Result.IsError,
                 Metadata |-> MapAt(heap, e.Result.Metadata)],
     DurationMs |-> e.DurationMs]

SnapshotValue(heap, snapshot) ==
    [k \in 1..Len(snapshot) |-> EntryValue(heap, snapshot[k])]

\* ToolExecutor.Execute logs an invocation: cleanParams is a map made for
\* the entry, Result.Metadata is the map the tool returned.
LoggerLog ==
    /\ Len(toolLogger.entries) < MaxLogged
    /\ \E toolName \in {"view_lines", "find_files"}, params \in LoggedParams,
          metadata \in LoggedMetadata, isError \in {FALSE},
          duration \in {1} :
         LET pAddr == Len(toolLogger.heap) + 1
             mAddr == Len(toolLogger.heap) + 2
             entry == [ToolName |-> toolName, Params |-> pAddr,
                       Result |-> [Content |-> "out", IsError |-> isError,
                                   Metadata |-> mAddr],
                       DurationMs |-> duration]
         IN toolLogger' =
              [toolLogger EXCEPT !.heap = @ \o <<params, metadata>>,
                                 !.entries = Append(@, entry)]
    /\ UNCHANGED lgRest

\* ToolLogger.Entries: make and copy, element by element; the copied
\* elements hold the same map addresses.
Entries(l) == [k \in 1..Len(l) |-> l[k]]

\* A caller takes a snapshot and reads it.
LoggerEntries ==
    /\ Len(toolLogger.seen) < MaxSnapshots
    /\ LET result == Entries(toolLogger.entries) IN
         toolLogger' =
           [toolLogger EXCEPT
              !.held = Append(@, result),
              !.seen = Append(@, SnapshotValue(toolLogger.heap, result))]
    /\ UNCHANGED lgRest

\* A caller stores another entry into an element of a snapshot it holds.
CallerSetsElement ==
    /\ \E s \in 1..Len(toolLogger.held) :
       \E k \in 1..Len(toolLogger.held[s]) :
         /\ toolLogger.held[s][k] # ZeroEntry
         /\ toolLogger' = [toolLogger EXCEPT !.held[s][k] = ZeroEntry]
    /\ UNCHANGED lgRest

\* A caller truncates a snapshot slice it holds.
CallerTruncates ==
    /\ \E s \in 1..Len(toolLogger.held) :
         /\ toolLogger.held[s] # <<>>
         /\ toolLogger' = [toolLogger EXCEPT
                             !.held[s] = SubSeq(@, 1, Len(@) - 1)]
    /\ UNCHANGED lgRest

\* A caller writes a key of the Params or Metadata map of an entry of a
\* snapshot it holds.
CallerWritesMap ==
    /\ \E s \in 1..Len(toolLogger.held) :
       \E k \in 1..Len(toolLogger.held[s]) :
       \E field \in {"Params", "Metadata"} :
         LET e == toolLogger.held[s][k]
             addr == IF field = "Params" THEN e.Params ELSE e.Result.Metadata
         IN /\ addr # 0
            /\ \E key \in DOMAIN toolLogger.heap[addr] :
                 /\ toolLogger.heap[addr][key] # WrittenValue(field)
                 /\ toolLogger' =
                      [toolLogger EXCEPT !.heap[addr][key] =
                                            WrittenValue(field),
                                         !.mapWrites = 1]
    /\ UNCHANGED lgRest

LoggerInit ==
    /\ SbIdle /\ ExIdle /\ RnIdle /\ FdIdle /\ BtIdle /\ AdIdle
    /\ BkIdle /\ ChIdle /\ SseIdle /\ EvIdle /\ VwIdle /\ MgIdle /\ SnIdle
    /\ toolLogger = NewToolLogger

LoggerNext ==
    \/ LoggerLog
    \/ LoggerEntries
    \/ CallerSetsElement
    \/ CallerTruncates
    \/ CallerWritesMap

LoggerSpec == LoggerInit /\ [][LoggerNext]_vars

\* s is t or a beginning of t.
IsPrefix(s, t) == Len(s) <= Len(t) /\ SubSeq(t, 1, Len(s)) = s

\* C30: whatever callers do with the snapshots they hold, each snapshot, as
\* read when Entries returned it, is a prefix of every later one: a logged
\* entry reads the same (tool name, params, result, duration) in every
\* later snapshot.
C30_HistoryFixed ==
    \A i \in 1..Len(toolLogger.seen) : \A j \in i..Len(toolLogger.seen) :
       IsPrefix(toolLogger.seen[i], toolLogger.seen[j])

-----------------------------------------------------------------------------
(* The SSE runner's tool loop: the event published for one tool call.      *)
(* A tool output is a string, modelled as a sequence of characters.        *)

\* The maxLen given to truncate for a tool_result event.
TruncateLimit == 500

\* The longest tool output considered.
MaxOutput == 520

evRest == <<sbVars, exVars, rnVars, fdVars, btVars, adVars, bkVars, chVars,
            sseRun, toolLogger,
            view,
            merge,
            session>>

\* A string of n characters.
StringOfLen(n) == [k \in 1..n |-> "x"]

\* truncate
truncate(s, maxLen) ==
    IF Len(s) <= maxLen THEN s
    ELSE SubSeq(s, 1, maxLen) \o <<".", ".", ".">>

\* One pass of the loop over toolCalls: executeTool returns an error or a
\* result, and the event for it is published.
SsePublishToolEvent ==
    /\ \E failed \in BOOLEAN, n \in 0..MaxOutput :
         sseEvent' =
            IF failed
            THEN [type |-> "tool_error", n |-> n, error |-> StringOfLen(n)]
            ELSE [type |-> "tool_result", n |-> n,
                  result |-> truncate(StringOfLen(n), TruncateLimit)]
    /\ UNCHANGED evRest

EventInit ==
    /\ SbIdle /\ ExIdle /\ RnIdle /\ FdIdle /\ BtIdle /\ AdIdle
    /\ BkIdle /\ ChIdle /\ SseIdle /\ LgIdle /\ VwIdle /\ MgIdle /\ SnIdle
    /\ sseEvent = [type |-> "none"]

EventNext == SsePublishToolEvent

EventSpec == EventInit /\ [][EventNext]_vars

\* C31: the result field of every tool_result event is at most 500
\* characters long, whatever the length of the tool output.
C31_ResultAtMost500 ==
    sseEvent.type = "tool_result" => Len(sseEvent.result) <= 500

-----------------------------------------------------------------------------
(* view_lines: ViewLinesTool.Execute on a file of numbered lines. A line   *)
(* is its text and whether it is longer than the scanner's buffer.         *)

maxViewLines == 100

\* The longest file, the largest start_line, the largest end_line beyond
\* start_line, and the last line that may exceed the scanner's buffer.
MaxFileLines == 103
MaxStart == 3
MaxSpan == 101
MaxLongAt == 2

vwRest == <<sbVars, exVars, rnVars, fdVars, btVars, adVars, bkVars, chVars,
            sseRun, toolLogger, sseEvent,
            merge,
            session>>

\* What os.Stat finds at the path: "outside" fails ValidatePath, "missing"
\* fails os.Stat.
FileKinds == {"regular", "dir", "pipe", "missing", "outside"}

\* The file of n lines whose line longAt, if any, exceeds the buffer.
FileOf(n, longAt) ==
    [k \in 1..n |-> [text |-> k, tooLong |-> (k = longAt)]]

\* fmt.Sprintf("%4d | %s\n", lineNum, line)
FormatLine(lineNum, line) == [num |-> lineNum, text |-> line]

\* The loop over scanner.Scan(), from the state after lineNum lines:
\* Scan fails on a line longer than the buffer, and ends at end of file.
RECURSIVE ScanLoop(_, _, _, _, _)
ScanLoop(lines, lineNum, startLine, endLine, out) ==
    IF lineNum = Len(lines)
    THEN [err |-> FALSE, out |-> out, totalLines |-> lineNum]
    ELSE IF lines[lineNum + 1].tooLong
    THEN [err |-> TRUE, out |-> out, totalLines |-> lineNum]
    ELSE IF lineNum + 1 < startLine
    THEN ScanLoop(lines, lineNum + 1, startLine, endLine, out)
    ELSE IF lineNum + 1 > endLine
    THEN [err |-> FALSE, out |-> out, totalLines |-> lineNum + 1]
    ELSE ScanLoop(lines, lineNum + 1, startLine, endLine,
                  Append(out, FormatLine(lineNum + 1,
                                         lines[lineNum + 1].text)))

ViewError(why) == [IsError |-> TRUE, why |-> why, lines |-> <<>>]

\* A faulty variant of ViewLinesExecute without the cap on the range.
ViewLinesExecuteNoCap(kind, lines, startLine, endLine) ==
    IF startLine < 1 THEN ViewError("start")
    ELSE IF endLine < startLine THEN ViewError("range")
    ELSE IF kind = "outside" THEN ViewError("path")
    ELSE IF kind = "missing" THEN ViewError("stat")
    ELSE IF kind = "dir" THEN ViewError("directory")
    ELSE IF kind # "regular" THEN ViewError("irregular")
    ELSE LET scan == ScanLoop(lines, 0, startLine, endLine, <<>>) IN
         IF scan.err THEN ViewError("read")
         ELSE IF Len(scan.out) = 0 THEN ViewError("empty")
         ELSE [IsError |-> FALSE, why |-> "", lines |-> scan.out]

\* ViewLinesTool.Execute
ViewLinesExecute(kind, lines, startLine, endLine) ==
    IF startLine < 1 THEN ViewError("start")
    ELSE IF endLine < startLine THEN ViewError("range")
    ELSE LET last == IF endLine - startLine + 1 > maxViewLines
                     THEN startLine + maxViewLines - 1
                     ELSE endLine
         IN
         IF kind = "outside" THEN ViewError("path")
         ELSE IF kind = "missing" THEN ViewError("stat")
         ELSE IF kind = "dir" THEN ViewError("directory")
         ELSE IF kind # "regular" THEN ViewError("irregular")
         ELSE LET scan == ScanLoop(lines, 0, startLine, last, <<>>) IN
              IF scan.err THEN ViewError("read")
              ELSE IF Len(scan.out) = 0 THEN ViewError("empty")
              ELSE [IsError |-> FALSE, why |-> "", lines |-> scan.out]

\* A call of view_lines on a file.
ViewCall ==
    /\ view.at = "none"
    /\ \E kind \in FileKinds, startLine \in 0..MaxStart,
          span \in 0..(MaxSpan + 1) :
       \E n \in (IF kind = "regular" THEN 0..MaxFileLines ELSE {0}) :
       \E longAt \in {k \in 0..MaxLongAt : k <= n} :
         LET endLine == startLine + span - 1
             lines == FileOf(n, longAt)
         IN view' = [at |-> "returned", kind |-> kind, n |-> n,
                     longAt |-> longAt, startLine |-> startLine,
                     endLine |-> endLine,
                     result |-> ViewLinesExecute(kind, lines, startLine,
                                                 endLine)]
    /\ UNCHANGED vwRest

ViewInit ==
    /\ SbIdle /\ ExIdle /\ RnIdle /\ FdIdle /\ BtIdle /\ AdIdle
    /\ BkIdle /\ ChIdle /\ SseIdle /\ LgIdle /\ EvIdle /\ MgIdle /\ SnIdle
    /\ view = [at |-> "none"]

ViewNext == ViewCall

ViewSpec == ViewInit /\ [][ViewNext]_vars

Min(a, b) == IF a <= b THEN a ELSE b

\* What the statement promises for a call: the lines numbered
\* start_line .. min(end_line, start_line + 99) that the file has, each
\* with its number, or an error result when there is none or the
\* arguments are refused.
ViewPromise ==
    LET lastWanted == Min(view.endLine, view.startLine + 99)
        lastThere == Min(lastWanted, view.n)
    IN IF \/ view.startLine < 1
          \/ view.endLine < view.startLine
          \/ view.kind # "regular"
          \/ view.startLine > view.n
       THEN view.result.IsError
       ELSE /\ ~view.result.IsError
            /\ Len(view.result.lines) = lastThere - view.startLine + 1
            /\ Len(view.result.lines) <= 100
            /\ \A k \in 1..Len(view.result.lines) :
                  view.result.lines[k]
                     = [num |-> view.startLine + k - 1,
                        text |-> view.startLine + k - 1]

\* The scanner meets no line longer than its buffer: it reads the lines up
\* to the one after the last line wanted.
WithinBuffer ==
    \/ view.longAt = 0
    \/ view.longAt > Min(view.endLine, view.startLine + 99) + 1

-----------------------------------------------------------------------------
(* RunCollaborative: the events channels of the two runners, the two       *)
(* forward goroutines, the WaitGroup, the goroutine that closes merged and *)
(* the consumer of merged.                                                 *)

\* Events one runner emits at most, and the capacities of a runner's
\* events channel and of merged.
MaxEmits == 2
SrcCap == 1
MergedCap == 1

mgRest == <<sbVars, exVars, rnVars, fdVars, btVars, adVars, bkVars, chVars,
            sseRun, toolLogger, sseEvent, view,
            session>>

\* A faulty variant of emit that leaves the agent name unset.
emitUntagged(agent, evt) == evt

\* Runner.emit: the event with the agent name of the runner's config.
emit(agent, evt) == [evt EXCEPT !.AgentName = agent]

\* The state after RunCollaborative returned: both runners started, both
\* forwarders at their range loop, wg.Add(2) done.
Collaborating ==
    [at |-> "running",
     src |-> [a \in Agents |-> <<>>],
     srcClosed |-> [a \in Agents |-> FALSE],
     emitted |-> [a \in Agents |-> <<>>],
     forward |-> [a \in Agents |-> [pc |-> "range"]],
     wg |-> 2,
     merged |-> <<>>,
     mergedClosed |-> FALSE,
     delivered |-> <<>>]

\* A runner emits its next event on its own events channel.
CollabEmit(a) ==
    /\ merge.at = "running"
    /\ ~merge.srcClosed[a]
    /\ Len(merge.emitted[a]) < MaxEmits
    /\ Len(merge.src[a]) < SrcCap
    /\ LET evt == emit(a, [AgentName |-> "", Type |-> EventText,
                           n |-> Len(merge.emitted[a]) + 1])
       IN merge' = [merge EXCEPT !.src[a] = Append(@, evt),
                                 !.emitted[a] = Append(@, evt)]
    /\ UNCHANGED mgRest

\* A runner finishes: Run's goroutine closes its events channel.
CollabFinish(a) ==
    /\ merge.at = "running"
    /\ ~merge.srcClosed[a]
    /\ merge' = [merge EXCEPT !.srcClosed[a] = TRUE]
    /\ UNCHANGED mgRest

\* forward: for evt := range src, and wg.Done() when src is closed and
\* empty.
ForwardRange(a) ==
    /\ merge.at = "running"
    /\ merge.forward[a].pc = "range"
    /\ \/ /\ merge.src[a] # <<>>
          /\ merge' = [merge EXCEPT
                         !.forward[a] = [pc |-> "send",
                                         evt |-> Head(merge.src[a])],
                         !.src[a] = Tail(@)]
       \/ /\ merge.src[a] = <<>>
          /\ merge.srcClosed[a]
          /\ merge' = [merge EXCEPT !.forward[a] = [pc |-> "done"],
                                    !.wg = @ - 1]
    /\ UNCHANGED mgRest

\* forward: merged <- evt.
ForwardSend(a) ==
    /\ merge.at = "running"
    /\ merge.forward[a].pc = "send"
    /\ ~merge.mergedClosed
    /\ Len(merge.merged) < MergedCap
    /\ merge' = [merge EXCEPT !.merged = Append(@, merge.forward[a].evt),
                              !.forward[a] = [pc |-> "range"]]
    /\ UNCHANGED mgRest

\* The closing goroutine: wg.Wait() returns, close(merged).
CloseMerged ==
    /\ merge.at = "running"
    /\ merge.wg = 0
    /\ ~merge.mergedClosed
    /\ merge' = [merge EXCEPT !.mergedClosed = TRUE]
    /\ UNCHANGED mgRest

\* The consumer receives from merged.
ConsumerReceive ==
    /\ merge.at = "running"
    /\ merge.merged # <<>>
    /\ merge' = [merge EXCEPT !.merged = Tail(@),
                              !.delivered = Append(@, Head(merge.merged))]
    /\ UNCHANGED mgRest

MergeInit ==
    /\ SbIdle /\ ExIdle /\ RnIdle /\ FdIdle /\ BtIdle /\ AdIdle
    /\ BkIdle /\ ChIdle /\ SseIdle /\ LgIdle /\ EvIdle /\ VwIdle /\ SnIdle
    /\ merge = Collaborating

MergeNext ==
    \/ \E a \in Agents : CollabEmit(a)
    \/ \E a \in Agents : CollabFinish(a)
    \/ \E a \in Agents : ForwardRange(a)
    \/ \E a \in Agents : ForwardSend(a)
    \/ CloseMerged
    \/ ConsumerReceive

\* The forwarders and the closing goroutine are scheduled, and the
\* consumer keeps reading.
MergeSpec ==
    /\ MergeInit
    /\ [][MergeNext]_vars
    /\ \A a \in Agents : WF_vars(ForwardRange(a)) /\ WF_vars(ForwardSend(a))
    /\ WF_vars(CloseMerged)
    /\ WF_vars(ConsumerReceive)

\* The events of one agent among a sequence of events, in their order.
RECURSIVE EventsOf(_, _)
EventsOf(a, evts) ==
    IF evts = <<>> THEN <<>>
    ELSE IF Head(evts).AgentName = a
         THEN <<Head(evts)>> \o EventsOf(a, Tail(evts))
         ELSE EventsOf(a, Tail(evts))

\* What has left the forwarders: delivered, then what merged still holds.
Forwarded == merge.delivered \o merge.merged

\* The consumer has got, of each agent, a beginning of what that agent
\* emitted, every event under the name of an agent, and merged is closed
\* only when both runners have finished and everything they emitted has
\* been forwarded.
MergeSafe ==
    /\ \A a \in Agents :
          IsPrefix(EventsOf(a, merge.delivered), merge.emitted[a])
    /\ \A k \in 1..Len(merge.delivered) :
          merge.delivered[k].AgentName \in Agents
    /\ merge.mergedClosed =>
          /\ \A a \in Agents : merge.srcClosed[a]
          /\ \A a \in Agents : EventsOf(a, Forwarded) = merge.emitted[a]

\* C33: with a consumer that keeps reading, merged delivers every event
\* either runner emitted exactly once, each agent's events in the order it
\* emitted them and under its name, and merged is closed only after both
\* runners have finished and all their events have been forwarded.
C33_Merged ==
    /\ []MergeSafe
    /\ \A a \in Agents : \A k \in 1..MaxEmits :
          (Len(merge.emitted[a]) >= k)
             ~> (Len(EventsOf(a, merge.delivered)) >= k)

\* merged has been closed after both agents' events were delivered, the
\* events of the two agents interleaved.
C33_Witness ==
    /\ merge.mergedClosed
    /\ Len(merge.delivered) = 2 * MaxEmits
    /\ merge.delivered[1].AgentName = "agent_b"
    /\ merge.delivered[2].AgentName = "agent_a"

-----------------------------------------------------------------------------
(* The status of the session row, written by the runner of a single        *)
(* session or by the two runners of a collaborative session, which share   *)
(* the session id and the session context.                                 *)

snRest == <<sbVars, exVars, rnVars, fdVars, btVars, adVars, bkVars, chVars,
            sseRun, toolLogger, sseEvent, view, merge>>

TerminalStatuses == {"completed", "failed", "cancelled"}

\* The ways Runner.run returns and the status each one writes.
RunExits == {"cancelled", "budget", "providerError", "streamError", "done"}

StatusOfExit(exit) ==
    IF exit = "cancelled" THEN "cancelled"
    ELSE IF exit \in {"budget", "done"} THEN "completed"
    ELSE "failed"

\* The runners of a session of the given mode.
RunnersOf(mode) == IF mode = "single" THEN {"single"} ELSE Agents

\* UPDATE sessions SET status = ? WHERE id = ?, under the session context:
\* ExecContext fails without touching the row once the context is done.
ExecUpdateStatus(status, ctxDone, new) == IF ctxDone THEN status ELSE new

\* A session has been created and its runners started.
SessionStarted(mode) ==
    [mode |-> mode, status |-> "running", ctxDone |-> FALSE,
     run |-> [a \in RunnersOf(mode) |-> [at |-> "loop", turns |-> 0]]]

\* A runner goes through a turn with tool calls.
SessionTurn(a) ==
    /\ session.run[a].at = "loop"
    /\ session.run[a].turns < MaxProviderCalls
    /\ session' = [session EXCEPT !.run[a].turns = @ + 1]
    /\ UNCHANGED snRest

\* A runner leaves its loop through one of the exits and emits the
\* terminal event; the cancelled exit is taken when the context is done.
SessionExit(a) ==
    /\ session.run[a].at = "loop"
    /\ \E exit \in RunExits :
         /\ (exit = "cancelled") = session.ctxDone
         /\ session' = [session EXCEPT !.run[a].at = exit]
    /\ UNCHANGED snRest

\* The runner writes the status of its exit and returns.
SessionWrite(a) ==
    /\ session.run[a].at \in RunExits
    /\ session' =
          [session EXCEPT
              !.status = ExecUpdateStatus(@, session.ctxDone,
                                          StatusOfExit(session.run[a].at)),
              !.run[a].at = "returned"]
    /\ UNCHANGED snRest

\* The session context is cancelled.
SessionCancel ==
    /\ ~session.ctxDone
    /\ session' = [session EXCEPT !.ctxDone = TRUE]
    /\ UNCHANGED snRest

SessionInit ==
    /\ SbIdle /\ ExIdle /\ RnIdle /\ FdIdle /\ BtIdle /\ AdIdle
    /\ BkIdle /\ ChIdle /\ SseIdle /\ LgIdle /\ EvIdle /\ VwIdle /\ MgIdle
    /\ session \in {SessionStarted(mode) : mode \in {"single", "collab"}}

SessionNext ==
    \/ \E a \in DOMAIN session.run : SessionTurn(a)
    \/ \E a \in DOMAIN session.run : SessionExit(a)
    \/ \E a \in DOMAIN session.run : SessionWrite(a)
    \/ SessionCancel

SessionSpec == SessionInit /\ [][SessionNext]_vars

\* C36: once the status of the session is completed, failed or cancelled,
\* no step changes it, in single mode and in collaborative mode.
C36_TerminalStays ==
    [][session.status \in TerminalStatuses
          => session'.status = session.status]_vars

-----------------------------------------------------------------------------
(* Claims about the CLI runner *)

\* C9 (as stated): emitting a progress event never blocks the run. Whenever
\* the runner is at an emit, the send can proceed at once, whatever the
\* observer has or has not read.
C9_EmitNeverBlocks == pc.at = "emit" => ENABLED RunEmit

\* A turn's stream has ended with no tool call and no error.
Concluded ==
    \/ pc.at = "emit" /\ pc.then = "exitDone"
    \/ pc.at = "exitDone"
    \/ hist.exit = "done"

\* C10 (as stated): once a turn's stream has ended without a tool call and
\* without an error, the assistant message of the turn is the last message
\* of the transcript and no provider call is made any more; and when the
\* run has returned from there, the last event sent is done with the budget
\* summary as its text, the session status is completed and the events
\* channel is closed.
C10_NoToolCallExit ==
    /\ Concluded =>
          /\ messages # <<>>
          /\ messages[Len(messages)] =
                 buildAssistantMessage(turn.assistantText, <<>>)
          /\ hist.calls = hist.concludedAt
    /\ hist.exit = "done" =>
          /\ pc.at = "returned"
          /\ hist.last = RunEvent(EventDone, Summary(budget), "", FALSE)
          /\ store.status = "completed"
          /\ closed

\* The stream carries at least one tool call and ends with done and Usage.
ToolingStream(s) ==
    /\ \E i \in 1..Len(s) : s[i].Type = "tool_call"
    /\ s # <<>> /\ s[Len(s)].Type = "done"

\* The budget that bounds turns only.
TurnBudget == [NoLimits EXCEPT !.MaxTurns = TurnLimit]

\* Every provider call so far handed back a stream with a tool call and done.
ToolingProvider ==
    /\ Len(hist.streams) = hist.calls
    /\ \A i \in 1..Len(hist.streams) : ToolingStream(hist.streams[i])

\* C11 (as stated): under a budget of MaxTurns = N only and a provider whose
\* every stream has a tool call and ends with done carrying Usage, a run
\* that leaves through the budget check has made exactly N provider calls,
\* its last event is budget_exceeded with "turn limit reached (N/N)", and
\* the session status is completed.
C11_TurnLimitExit ==
    (budget.budget = TurnBudget /\ ToolingProvider /\ hist.exit = "budget")
        => /\ hist.calls = TurnLimit
           /\ hist.last = RunEvent(EventBudgetExceeded,
                                   <<"turn limit reached", TurnLimit, TurnLimit>>,
                                   "", FALSE)
           /\ store.status = "completed"

\* The RunEvent the runner sends for a stream event that has one.
RunEventFor(event) ==
    IF event.Type = "text_delta"
      THEN RunEvent(EventText, event.Text, "", FALSE)
    ELSE IF event.Type = "tool_call"
      THEN RunEvent(EventToolCall, <<>>, event.ToolCall.Name, FALSE)
    ELSE RunEvent(EventError, event.Error, "", FALSE)

\* The stream of the last provider call ends with error.
LastStream == hist.streams[Len(hist.streams)]
EndsWithError(s) == s # <<>> /\ s[Len(s)].Type = "error"

\* C14 (as stated): when the run has returned after a stream that ended
\* with error, the events sent since the provider call are the events of
\* the stream in order (k text events for k text deltas) followed by the
\* one error event, the session status is failed, the transcript is the
\* one the provider call was made with, the tracker is unchanged, no tool
\* result was produced and no provider call followed.
C14_StreamError ==
    (hist.exit = "streamError" /\ EndsWithError(LastStream))
       => /\ SubSeq(hist.log, hist.mark + 1, Len(hist.log))
               = [i \in 1..Len(LastStream) |-> RunEventFor(LastStream[i])]
          /\ store.status = "failed"
          /\ messages = hist.requests[Len(hist.requests)]
          /\ budget = hist.budgetAtCall
          /\ turn.toolResults = <<>>
          /\ Len(hist.streams) = hist.calls
          /\ pc.at = "returned" /\ closed

\* C15 (as stated, for a runner that has seen the cancellation at the top
\* of its loop): the last event it sent is error with text "cancelled",
\* the session status recorded in the store is cancelled and its events
\* channel is closed.
C15_Cancellation ==
    hist.exit = "cancelled"
       => /\ hist.last = RunEvent(EventError, <<"cancelled">>, "", FALSE)
          /\ store.status = "cancelled"
          /\ closed

\* C19 (as stated, CLI runner): every transcript handed to a provider call
\* is non-empty and starts with one and the same user message.
C19_SeedFirst ==
    \A r \in 1..Len(hist.requests) :
        /\ hist.requests[r] # <<>>
        /\ hist.requests[r][1].Role = "user"
        /\ hist.requests[r][1] = hist.requests[1][1]

\* The events of the given type sent so far.
EventsSent(type) ==
    LET Is(e) == e.Type = type IN Len(SelectSeq(hist.log, Is))

\* The tool-result blocks of the transcript and of the turn in progress.
RECURSIVE Flatten(_)
Flatten(seqs) ==
    IF seqs = <<>> THEN <<>> ELSE Head(seqs) \o Flatten(Tail(seqs))

TranscriptResults ==
    Flatten([j \in 1..Len(messages) |->
               IF messages[j].Role = "user" THEN messages[j].Content
               ELSE <<>>])

\* The result blocks that report a finding as recorded or as lost to a
\* failure of the store.
FindingReports ==
    LET Reports(b) ==
          b.ToolResult.Content \in { RecordedResult.Content,
                                      CheckErrorResult.Content,
                                      CreateErrorResult.Content }
    IN Len(SelectSeq(TranscriptResults, Reports))

\* C25 (as stated): a valid finding whose duplicate check or insert failed
\* in the store is reported to observers all the same: for every result
\* block of the transcript that answers a valid record_finding call with
\* success or with a store failure, a finding_recorded event has been sent.
C25_ReportedAnyway == EventsSent(EventFindingRecorded) >= FindingReports

\* C27 (as stated): each tool call answered in the transcript, whether
\* served by the ToolExecutor or by a special tool of the runner, has had
\* its own tool_result event sent before its turn's results were appended.
C27_ResultEvents == EventsSent(EventToolResult) >= Len(TranscriptResults)

\* C12: every user message of the transcript follows an assistant message,
\* holds exactly one tool-result block per tool call of that message, the
\* i-th carrying the id of the i-th call; and every transcript handed to a
\* provider call is empty or ends with such a user message, so no call
\* starts while results of the previous turn are outstanding.
C12_TurnOrdering ==
    /\ \A j \in 1..Len(messages) :
          messages[j].Role = "user" =>
             /\ j > 1
             /\ messages[j - 1].Role = "assistant"
             /\ LET calls == ToolCallBlocks(messages[j - 1])
                    results == messages[j].Content
                IN  /\ Len(calls) > 0
                    /\ Len(results) = Len(calls)
                    /\ \A i \in 1..Len(results) :
                          /\ results[i].Type = "tool_result"
                          /\ results[i].ToolResult.ToolCallID
                                = calls[i].ToolCall.ID
    /\ \A j \in 1..Len(messages) :
          (messages[j].Role = "assistant" /\ j < Len(messages))
             => messages[j + 1].Role = "user"
    /\ \A r \in 1..Len(hist.requests) :
          LET t == hist.requests[r]
          IN  t = <<>> \/ t[Len(t)].Role = "user"

\* A turn with two tool calls has been answered and the next provider call
\* has been made with its results.
C12_Witness ==
    /\ hist.calls >= 2
    /\ Len(hist.requests[2]) = 2
    /\ Len(hist.requests[2][2].Content) = 2

ExecutorInit == SbIdle /\ ExIdle /\ RnIdle /\ RestIdle

ExecutorNext ==
    \/ \E c \in Callers, n \in ToolNames, p \in ParamMaps : ExecuteStart(c, n, p)
    \/ \E id \in DOMAIN tool : ToolBegin(id)
    \/ \E id \in DOMAIN tool, o \in ToolOutcomes : ToolFinish(id, o)
    \/ \E c \in Callers : ExecuteTimeout(c)
    \/ \E c \in Callers : ExecuteReceive(c)
    \/ \E c \in Callers : ExecuteLog(c)
    \/ Tick

ExecutorSpec == ExecutorInit /\ [][ExecutorNext]_vars

SandboxInit == SbIdle /\ ExIdle /\ RnIdle /\ RestIdle

SandboxNext ==
    \/ \E t \in InnerTargets \cup {NoLink} : Symlink(InnerSlot, t)
    \/ \E t \in OuterTargets \cup {NoLink} : Symlink(OuterSlot, t)
    \/ ToolsValidate
    \/ AgentValidate
    \/ ValidateReturn

SandboxSpec == SandboxInit /\ [][SandboxNext]_vars

-----------------------------------------------------------------------------
(* Sandbox claims.  Containment is judged on path components, apart from    *)
(* the string comparison the code uses.                                     *)

\* The components of a cleaned absolute path.
Comps(p) == CleanComps(Split(p), <<>>, TRUE)

\* p names the directory at, or a place below, the directory at.
AtOrBelow(p, at) ==
    LET c == Comps(p)
        r == Comps(at)
    IN  Len(c) >= Len(r) /\ SubSeq(c, 1, Len(r)) = r

\* p is made of k >= 1 leading "../" segments followed by any tail.
DotDotForm(p) == p = DotDot \/ HasPrefix(p, DotDot \o <<Separator>>)

ToolsCall == call.variant = "tools"
AgentCall == call.variant = "agent"

\* What the requested path resolves to in the present tree.
Resolved == EvalSymlinks(links, AbsPathOf(call.req))
ResolvedParent == EvalSymlinks(links, Dir(AbsPathOf(call.req)))

\* The place the request designates: its resolution, or that of its parent
\* directory when the path itself cannot be resolved.
DesignatesOutside ==
    IF Resolved.err = "" THEN ~AtOrBelow(Resolved.path, RootPath)
    ELSE ResolvedParent.err = "" => ~AtOrBelow(ResolvedParent.path, RootPath)

\* C1 as stated: every "../"-led relative path and every absolute path that
\* is not under the root is rejected by the core/tools ValidatePath.
C1_AllTraversalsFail ==
    (ToolsCall /\ (\/ DotDotForm(call.req)
                   \/ IsAbs(call.req) /\ ~AtOrBelow(Clean(call.req), RootPath)))
        => ~call.res.ok

\* C1 amended: a "../"-led relative path or an absolute path is rejected
\* whenever the place it designates after cleaning and symlink resolution
\* (of the path, or of its parent when the path cannot be resolved) is
\* neither the root nor below it.
C1_EscapesFail ==
    (ToolsCall /\ (DotDotForm(call.req) \/ IsAbs(call.req))
               /\ DesignatesOutside)
        => ~call.res.ok

\* A "../" traversal to the sibling's file has been rejected.
C1_Witness ==
    /\ ToolsCall
    /\ call.req = <<".", ".", "/", "a", "b", "/", "s">>
    /\ ~call.res.ok

\* The request runs through the symlink slot inside the root, which holds a
\* symlink, as its last element or as an intermediate directory.
ThroughInnerLink ==
    /\ links[InnerSlot] # NoLink
    /\ AtOrBelow(AbsPathOf(call.req), InnerSlot)

\* C2: a path through a symlink inside the root whose target exists is
\* accepted by the core/tools ValidatePath exactly when the resolved target
\* is the root or below it; in particular it is rejected when the target
\* is an existing file or directory outside the root.
C2_SymlinkTarget ==
    (ToolsCall /\ ThroughInnerLink /\ Resolved.err = "")
        => (call.res.ok <=> AtOrBelow(Resolved.path, RootPath))

\* The request l/s was rejected while /a/l pointed at the sibling /ab.
C2_Witness ==
    /\ ToolsCall
    /\ links[InnerSlot] = SiblingPath
    /\ call.req = <<"l", "/", "s">>
    /\ Resolved.err = ""
    /\ ~call.res.ok

\* C3: every path that designates a place at or under the sibling /ab,
\* whose name begins with the name of the root /a, is rejected by the
\* core/tools ValidatePath, however it is written.
C3_PrefixTrap ==
    (ToolsCall /\ (\/ Resolved.err = "" /\ AtOrBelow(Resolved.path, SiblingPath)
                   \/ Resolved.err # "" /\ ResolvedParent.err = ""
                        /\ AtOrBelow(ResolvedParent.path, SiblingPath)))
        => ~call.res.ok

\* The sibling's file was reached through the symlink inside the root, and
\* rejected.
C3_Witness ==
    /\ ToolsCall
    /\ links[InnerSlot] = SiblingPath \o <<"/", "s">>
    /\ call.req = <<"l">>
    /\ Resolved.path = SiblingPath \o <<"/", "s">>
    /\ ~call.res.ok

RECURSIVE HasLinkComponent(_, _, _)
\* Some prefix of the absolute path with components comps, longer than n
\* components, is a symlink in the tree fs.
HasLinkComponent(fs, comps, n) ==
    IF n >= Len(comps) THEN FALSE
    ELSE \/ Lstat(fs, AbsOf(SubSeq(comps, 1, n + 1))) = "link"
         \/ HasLinkComponent(fs, comps, n + 1)

\* C4 as stated: a path returned by the core/tools ValidatePath is absolute,
\* cleaned, free of symlink components and is the root or starts with
\* root + separator, on either accepting branch.
C4_ReturnsCanonical ==
    (ToolsCall /\ call.res.ok)
        => /\ IsAbs(call.res.path)
           /\ Clean(call.res.path) = call.res.path
           /\ ~HasLinkComponent(links, Comps(call.res.path), 0)
           /\ AtOrBelow(call.res.path, RootPath)

\* The request names no existing entry: resolution stops at a missing name.
TerminalMissing == Resolved.err = "ENOENT"

AgentResolved == EvalSymlinks(links, Join(root, Clean(call.req)))

\* C6 as stated: the internal/agent ValidatePath never accepts a relative
\* path whose symlink-resolved target lies outside the root, a sibling /ab
\* of the root /a included.
C6_AgentContainment ==
    (AgentCall /\ call.res.ok /\ AgentResolved.err = "")
        => AtOrBelow(AgentResolved.path, RootPath)

\* C34: under a budget with MaxToolCalls = M > 0 the tool calls the runner
\* has carried out, each of which left a result block in the transcript,
\* never number more than M.
C34_ToolCallCap ==
    budget.budget.MaxToolCalls > 0 =>
       Len(TranscriptResults) <= budget.budget.MaxToolCalls

\* C35: under a budget with MaxTurns = N > 0 the runner never makes more
\* than N provider calls, whatever the streams carry.
C35_TurnCap ==
    budget.budget.MaxTurns > 0 => hist.calls <= budget.budget.MaxTurns

\* C37: after Execute has returned, normally or on timeout, the params map
\* of its caller has the keys it was passed with, and no "__ctx" key.
C37_ParamsUntouched ==
    \A k \in 1..Len(returned) :
       returned[k].id # 0 =>
          "__ctx" \notin DOMAIN tool[returned[k].id].params

RECURSIVE LeadsTo(_, _, _, _)
\* The place a path leads to when every symlink on it is followed, whether
\* or not the names it passes exist: as WalkSymlinks, but a missing name is
\* kept as a name that may be created later. The result is [loop, path].
LeadsTo(fs, rest, dest, walked) ==
    IF rest = <<>> THEN [loop |-> FALSE, path |-> AbsOf(dest)]
    ELSE LET c == Head(rest) IN
         IF c = <<>> \/ c = Dot THEN LeadsTo(fs, Tail(rest), dest, walked)
         ELSE IF c = DotDot THEN
              LeadsTo(fs, Tail(rest),
                      IF dest = <<>> THEN dest
                      ELSE SubSeq(dest, 1, Len(dest) - 1), walked)
         ELSE LET next == Append(dest, c) IN
              IF Lstat(fs, AbsOf(next)) # "link"
                THEN LeadsTo(fs, Tail(rest), next, walked)
              ELSE IF walked + 1 > MaxLinksWalked
                THEN [loop |-> TRUE, path |-> <<>>]
              ELSE LET link == fs[AbsOf(next)] IN
                   LeadsTo(fs, Split(link) \o Tail(rest),
                           IF IsAbs(link) THEN <<>> ELSE dest, walked + 1)

\* Where the requested path leads in the present tree.
Destination == LeadsTo(links, Split(AbsPathOf(call.req)), <<>>, 0)

\* C38: a path accepted by the core/tools ValidatePath leads, with every
\* symlink on it followed, to the root or below it, also when the place it
\* leads to does not exist yet.
C38_NoDanglingEscape ==
    (ToolsCall /\ call.res.ok /\ ~Destination.loop)
        => AtOrBelow(Destination.path, RootPath)

\* The terminal events of a run.
TerminalTypes == {EventDone, EventError, EventBudgetExceeded}

\* The positions of the terminal events among the events sent so far.
TerminalsSent == {k \in 1..Len(hist.log) : hist.log[k].Type \in TerminalTypes}

\* Every stream the provider has handed out ends with its one terminal
\* event, done or error.
HonoursContract ==
    \A k \in 1..Len(hist.streams) :
       LET st == hist.streams[k] IN
       /\ st # <<>>
       /\ st[Len(st)].Type \in {"done", "error"}
       /\ \A i \in 1..(Len(st) - 1) : st[i].Type \notin {"done", "error"}

\* C39: against a provider that honours the stream contract, the runner
\* sends at most one terminal event (done, error or budget_exceeded), no
\* event is sent after it, and when the events channel has been closed
\* exactly one has been sent, as the last event.
C39_OneTerminalLast ==
    HonoursContract =>
       /\ Cardinality(TerminalsSent) <= 1
       /\ TerminalsSent \subseteq {Len(hist.log)}
       /\ closed => TerminalsSent = {Len(hist.log)}

\* A run has returned after a turn with tool calls, its terminal event sent
\* after text, tool_call and tool_result events.
C39_Witness ==
    /\ closed
    /\ HonoursContract
    /\ hist.calls = 2
    /\ Len(hist.log) >= 3
    /\ hist.log[Len(hist.log)].Type = EventDone

\* C40: whatever the interleaving of Publish, GetOrCreateChannel and
\* CloseChannel on the session, no Publish call sends on a closed channel.
C40_NoSendOnClosed == \A p \in Publishers : pubs[p].pc # "panic"

====
